---- MODULE Spec2Model ----
(***************************************************************************)
(* Model of the KPI tree editor's tree store (useTreeStore.ts) and of the  *)
(* relationship helpers of the format codec (fileExport.ts).               *)
(*                                                                         *)
(* Strings that the code inspects (ids, names, relationship ids) are       *)
(* sequences of one-character strings, so that startsWith / includes /     *)
(* endsWith / concatenation are computed as the code computes them.        *)
(* An optional value (undefined or null in the code) is None == <<>>, a    *)
(* present one is Some(v) == <<v>>.  `relationships` and `markers` are     *)
(* plain sequences: every reader in the code treats a missing list as an   *)
(* empty one (`x || []`, `if (x)` followed by iteration).                  *)
(*                                                                         *)
(* The tab manager (useTabManager.ts) holds the tab list, the id of the    *)
(* active tab and the blob in localStorage; KPITree.vue wires the store    *)
(* to the active tab with watchers.  `download` is the document of the     *)
(* last XMind export and `importError` the message of the import modal.    *)
(***************************************************************************)
EXTENDS Integers, Sequences, FiniteSets, TLC

VARIABLES treeData, moveError, timers, linkSourceId, nextId, nextLinkId, last,
          tabs, activeTabId, storage, nextTabId, importError, download,
          isLocked, selectedNodeId, contextMenu, draggedNodeId

vars == <<treeData, moveError, timers, linkSourceId, nextId, nextLinkId, last,
          tabs, activeTabId, storage, nextTabId, importError, download,
          isLocked, selectedNodeId, contextMenu, draggedNodeId>>

\* the refs of the store that the handlers of the view read and write:
\* the lock, the selected node, the node of the open context menu (none
\* when the menu is closed) and the node that is being dragged
viewVars == <<isLocked, selectedNodeId, contextMenu, draggedNodeId>>

None == <<>>
Some(v) == <<v>>

(***************************************************************************)
(* Bounds                                                                  *)
(***************************************************************************)
\* number of ids generateNodeId may hand out
MaxFresh == 2
\* number of link ids createLink may hand out
MaxLinks == 1
\* number of pending moveError timeouts
MaxTimers == 1
\* number of pending moveError timeouts where timeouts of several failures
\* overlap
MaxPending == 2
\* number of relationship records a forest may hold after an import
MaxRecords == 6
\* number of ids generateTabId may hand out
MaxTabs == 1
\* UI fields of the tabs that the user may have set at one time
MaxTouched == 1

(***************************************************************************)
(* Strings                                                                 *)
(***************************************************************************)
StartsWith(s, p) == Len(p) <= Len(s) /\ SubSeq(s, 1, Len(p)) = p
EndsWith(s, p) == Len(p) <= Len(s) /\ SubSeq(s, Len(s) - Len(p) + 1, Len(s)) = p
Includes(s, p) == \E i \in 1..(Len(s) - Len(p) + 1) : SubSeq(s, i, i + Len(p) - 1) = p

UpperToLower ==
  [c \in {"A","B","C","D","E","F","G","H","I","J","K","L","M","N","O","P","Q","R","S","T","U","V","W","X","Y","Z"} |->
     CASE c = "A" -> "a" [] c = "B" -> "b" [] c = "C" -> "c" [] c = "D" -> "d"
       [] c = "E" -> "e" [] c = "F" -> "f" [] c = "G" -> "g" [] c = "H" -> "h"
       [] c = "I" -> "i" [] c = "J" -> "j" [] c = "K" -> "k" [] c = "L" -> "l"
       [] c = "M" -> "m" [] c = "N" -> "n" [] c = "O" -> "o" [] c = "P" -> "p"
       [] c = "Q" -> "q" [] c = "R" -> "r" [] c = "S" -> "s" [] c = "T" -> "t"
       [] c = "U" -> "u" [] c = "V" -> "v" [] c = "W" -> "w" [] c = "X" -> "x"
       [] c = "Y" -> "y" [] c = "Z" -> "z"]

toLowerCase(s) == [i \in 1..Len(s) |-> IF s[i] \in DOMAIN UpperToLower THEN UpperToLower[s[i]] ELSE s[i]]

Digit == [d \in 0..9 |-> CASE d = 0 -> "0" [] d = 1 -> "1" [] d = 2 -> "2" [] d = 3 -> "3"
                           [] d = 4 -> "4" [] d = 5 -> "5" [] d = 6 -> "6" [] d = 7 -> "7"
                           [] d = 8 -> "8" [] d = 9 -> "9"]

\* literals of the code
S_ebitda_root == <<"e","b","i","t","d","a","-","r","o","o","t">>
S_ebitda == <<"e","b","i","t","d","a">>
S_production_ == <<"p","r","o","d","u","c","t","i","o","n","-">>
S_production_revenue == <<"p","r","o","d","u","c","t","i","o","n","-","r","e","v","e","n","u","e">>
S_production_revenue_name == <<"p","r","o","d","u","c","t","i","o","n"," ","(","r","e","v","e","n","u","e",")">>
S_cash_cost == <<"c","a","s","h","-","c","o","s","t">>
S_free_cash_flow == <<"f","r","e","e","-","c","a","s","h","-","f","l","o","w">>
S_fcf == <<"f","c","f">>
S_free_cash == <<"f","r","e","e","-","c","a","s","h">>
S_capex == <<"c","a","p","e","x">>
S_capex_ == <<"c","a","p","e","x","-">>
S_financial_ == <<"f","i","n","a","n","c","i","a","l","-">>
S_financial_performance == <<"f","i","n","a","n","c","i","a","l","-","p","e","r","f","o","r","m","a","n","c","e">>
S_operational_ == <<"o","p","e","r","a","t","i","o","n","a","l","-">>
S_operational_excellence == <<"o","p","e","r","a","t","i","o","n","a","l","-","e","x","c","e","l","l","e","n","c","e">>
S_maintenance == <<"m","a","i","n","t","e","n","a","n","c","e">>
S_maintenance_ == <<"m","a","i","n","t","e","n","a","n","c","e","-">>
S_rm_ == <<"r","m","-">>
S_reliability_ == <<"r","e","l","i","a","b","i","l","i","t","y","-">>
S_esg == <<"e","s","g">>
S_environmental_ == <<"e","n","v","i","r","o","n","m","e","n","t","a","l","-">>
S_social_ == <<"s","o","c","i","a","l","-">>
S_governance_ == <<"g","o","v","e","r","n","a","n","c","e","-">>
S_ob_ == <<"o","b","-">>
S_coal_ == <<"c","o","a","l","-">>
S_drill_blast == <<"d","r","i","l","l","-","b","l","a","s","t">>
S_emp_ == <<"e","m","p","-">>
S_employee_ == <<"e","m","p","l","o","y","e","e","-">>
S_employee == <<"e","m","p","l","o","y","e","e">>
S_labor == <<"l","a","b","o","r">>
S_tyre_ == <<"t","y","r","e","-">>
S_fuel_ == <<"f","u","e","l","-">>
S_equipment_ == <<"e","q","u","i","p","m","e","n","t","-">>
S_tyre == <<"t","y","r","e">>
S_fuel == <<"f","u","e","l">>
S_equipment == <<"e","q","u","i","p","m","e","n","t">>
S_root_sentinel == <<"_","_","r","o","o","t","_","_">>
S_node_ == <<"n","o","d","e","-">>
S_link_ == <<"l","i","n","k","-">>
S_copy == <<" ","(","c","o","p","y",")">>
S_reverse == <<"-","r","e","v","e","r","s","e">>

(***************************************************************************)
(* Category model                                                          *)
(***************************************************************************)
NodeCategory == {"root", "revenue", "cost", "fcf", "capex", "financial", "operational",
                 "maintenance", "esg", "production", "employee", "equipment", "metric"}

\* variant of the table in which a metric may not sit under a metric
VALID_PARENT_CATEGORIES_metricNoNest ==
  [c \in NodeCategory |->
     CASE c = "root" -> {}
       [] c \in {"revenue", "cost", "fcf", "capex", "financial", "operational", "esg"} -> {"root"}
       [] c = "maintenance" -> {"root", "operational"}
       [] c = "production" -> {"revenue"}
       [] c = "employee" -> {"cost"}
       [] c = "equipment" -> {"cost", "production", "maintenance"}
       [] c = "metric" -> {"revenue", "cost", "fcf", "capex", "financial", "operational",
                           "maintenance", "esg", "production", "employee", "equipment"}]

VALID_PARENT_CATEGORIES ==
  [c \in NodeCategory |->
     CASE c = "root" -> {}
       [] c = "revenue" -> {"root"}
       [] c = "cost" -> {"root"}
       [] c = "fcf" -> {"root"}
       [] c = "capex" -> {"root"}
       [] c = "financial" -> {"root"}
       [] c = "operational" -> {"root"}
       [] c = "maintenance" -> {"root", "operational"}
       [] c = "esg" -> {"root"}
       [] c = "production" -> {"revenue"}
       [] c = "employee" -> {"cost"}
       [] c = "equipment" -> {"cost", "production", "maintenance"}
       [] c = "metric" -> {"revenue", "cost", "fcf", "capex", "financial", "operational",
                           "maintenance", "esg", "production", "employee", "equipment", "metric"}]

\* the checks run in the order of the code: the first match decides
inferCategory(node) ==
  IF node.category # None THEN node.category[1]
  ELSE LET id == toLowerCase(node.id)
           name == toLowerCase(node.name)
       IN IF id = S_ebitda_root \/ Includes(id, S_ebitda) THEN "root"
          ELSE IF StartsWith(id, S_production_) \/ id = S_production_revenue
                    \/ Includes(name, S_production_revenue_name) THEN "revenue"
          ELSE IF id = S_cash_cost \/ StartsWith(id, S_cash_cost) THEN "cost"
          ELSE IF id = S_free_cash_flow \/ StartsWith(id, S_fcf) \/ Includes(id, S_free_cash) THEN "fcf"
          ELSE IF id = S_capex \/ StartsWith(id, S_capex_) THEN "capex"
          ELSE IF StartsWith(id, S_financial_) \/ id = S_financial_performance THEN "financial"
          ELSE IF StartsWith(id, S_operational_) \/ id = S_operational_excellence THEN "operational"
          ELSE IF id = S_maintenance \/ StartsWith(id, S_maintenance_) \/ StartsWith(id, S_rm_)
                    \/ StartsWith(id, S_reliability_) THEN "maintenance"
          ELSE IF Includes(id, S_esg) \/ StartsWith(id, S_environmental_) \/ StartsWith(id, S_social_)
                    \/ StartsWith(id, S_governance_) THEN "esg"
          ELSE IF StartsWith(id, S_ob_) \/ StartsWith(id, S_coal_) \/ StartsWith(id, S_drill_blast) THEN "production"
          ELSE IF StartsWith(id, S_emp_) \/ StartsWith(id, S_employee_) \/ Includes(name, S_employee)
                    \/ Includes(name, S_labor) THEN "employee"
          ELSE IF StartsWith(id, S_tyre_) \/ StartsWith(id, S_fuel_) \/ StartsWith(id, S_equipment_)
                    \/ Includes(name, S_tyre) \/ Includes(name, S_fuel) \/ Includes(name, S_equipment) THEN "equipment"
          ELSE "metric"

(***************************************************************************)
(* KPINode (types/index.ts) and the initial datasets                       *)
(***************************************************************************)
\* a KPINode without children, relationships or markers
Leaf(id, name, unit, esg, scope, category) ==
  [id |-> id, name |-> name, unit |-> unit, esg |-> esg, scope |-> scope,
   category |-> category, children |-> None, isDetached |-> FALSE,
   relationships |-> <<>>, markers |-> <<>>, position |-> None]

WithChildren(node, kids) == [node EXCEPT !.children = Some(kids)]

\* node.children || []
Kids(node) == IF node.children # None THEN node.children[1] ELSE <<>>

ID_ebitda == S_ebitda_root
ID_rev == S_production_revenue
ID_cost == S_cash_cost
ID_ob == <<"o","b","-","1">>
ID_m1 == <<"m","1">>
ID_m2 == <<"m","2">>
ID_m3 == <<"m","3">>
ID_x1 == <<"x","1">>
ID_oper == S_operational_excellence
ID_rm == <<"r","m","-","1">>
ID_fuel == <<"f","u","e","l","-","1">>
ID_ghost == <<"g","h","o","s","t">>

\* EBITDA > [ Production (revenue) > [ OB ], Cash cost > [ m1 ] ]
DataFinancial ==
  << WithChildren(Leaf(ID_ebitda, <<"E">>, None, None, None, None),
       << WithChildren(Leaf(ID_rev, <<"P">>, Some(<<"t">>), None, None, None),
            << Leaf(ID_ob, <<"O">>, None, None, None, None) >>),
          WithChildren(Leaf(ID_cost, <<"C">>, Some(<<"$">>), None, None, None),
            << Leaf(ID_m1, <<"M">>, Some(<<"%">>), Some("E"), Some(1), None) >>) >>) >>

\* m1 > [ m2 > [ m3 ] ], x1 "Labor"
DataMetrics ==
  << WithChildren(Leaf(ID_m1, <<"M">>, Some(<<"%">>), Some("S"), Some(2), None),
       << WithChildren(Leaf(ID_m2, <<"N">>, None, Some("E"), None, None),
            << Leaf(ID_m3, <<"K">>, Some(<<"$">>), None, Some(3), None) >>) >>),
     Leaf(ID_x1, <<"L","a","b","o","r">>, None, None, None, None) >>

\* Operational > [ R&M > [ Fuel ] ], Capex
DataOperational ==
  << WithChildren(Leaf(ID_oper, <<"X">>, None, None, None, None),
       << WithChildren(Leaf(ID_rm, <<"R">>, None, None, None, None),
            << Leaf(ID_fuel, <<"F">>, Some(<<"l">>), Some("E"), Some(1), None) >>) >>),
     Leaf(S_capex, <<"Q">>, Some(<<"$">>), None, None, None) >>

Datasets == {DataFinancial, DataMetrics, DataOperational}

(***************************************************************************)
(* Lookups                                                                 *)
(***************************************************************************)
RECURSIVE findNodeById(_, _)
findNodeById(id, nodes) ==
  IF nodes = <<>> THEN None
  ELSE LET node == Head(nodes)
       IN IF node.id = id THEN Some(node)
          ELSE LET found == IF node.children # None THEN findNodeById(id, node.children[1]) ELSE None
               IN IF found # None THEN found ELSE findNodeById(id, Tail(nodes))

\* `found !== undefined` holds for every result of the recursive call (a node
\* or null), so the first node that has a children list ends the search
RECURSIVE findParentOfNode(_, _, _)
findParentOfNode(nodeId, nodes, parent) ==
  IF nodes = <<>> THEN None
  ELSE LET node == Head(nodes)
       IN IF node.id = nodeId THEN parent
          ELSE IF node.children # None THEN findParentOfNode(nodeId, node.children[1], Some(node))
          ELSE findParentOfNode(nodeId, Tail(nodes), parent)

\* all nodes of a forest in depth-first pre-order
RECURSIVE Flatten(_)
Flatten(nodes) ==
  IF nodes = <<>> THEN <<>>
  ELSE <<Head(nodes)>> \o Flatten(Kids(Head(nodes))) \o Flatten(Tail(nodes))

NodeCount(nodes) == Len(Flatten(nodes))
IdsOf(nodes) ==
  LET flat == Flatten(nodes)
  IN {flat[i].id : i \in 1..Len(flat)}

(***************************************************************************)
(* Move validation                                                         *)
(***************************************************************************)
Valid == [valid |-> TRUE, reason |-> None]
Invalid(reason) == [valid |-> FALSE, reason |-> Some(reason)]

\* variant of isMoveValid without the allowedAtRoot test of a root-level target
isMoveValid_rootAlwaysAllowed(sourceNode, targetNode) ==
  LET sourceCategory == inferCategory(sourceNode)
      targetCategory == IF targetNode # None THEN inferCategory(targetNode[1]) ELSE "root"
  IN IF sourceCategory = "root" THEN Invalid(<<"Cannot move root-level EBITDA node">>)
     ELSE IF targetNode = None THEN Valid
     ELSE IF targetCategory \notin VALID_PARENT_CATEGORIES[sourceCategory]
       THEN Invalid(<<sourceCategory, " items cannot be moved under ", targetCategory, " items.">>)
     ELSE Valid

isMoveValid(sourceNode, targetNode) ==
  LET sourceCategory == inferCategory(sourceNode)
      targetCategory == IF targetNode # None THEN inferCategory(targetNode[1]) ELSE "root"
  IN IF sourceCategory = "root" THEN Invalid(<<"Cannot move root-level EBITDA node">>)
     ELSE IF targetNode = None
       THEN IF "root" \notin VALID_PARENT_CATEGORIES[sourceCategory]
              THEN Invalid(<<sourceNode.name, " cannot be moved to root level">>)
              ELSE Valid
     ELSE IF targetCategory \notin VALID_PARENT_CATEGORIES[sourceCategory]
       THEN Invalid(<<sourceCategory, " items cannot be moved under ", targetCategory, " items.">>)
     ELSE Valid

RECURSIVE checkDescendants(_, _)
checkDescendants(node, target) ==
  IF node.id = target THEN TRUE
  ELSE IF node.children # None
    THEN \E i \in 1..Len(node.children[1]) : checkDescendants(node.children[1][i], target)
  ELSE FALSE

\* variant of isDescendant that stops at the direct children of the node
isDescendant_childrenOnly(nodes, nodeId, targetId) ==
  LET sourceNode == findNodeById(nodeId, nodes)
  IN IF sourceNode = None THEN FALSE
     ELSE \/ sourceNode[1].id = targetId
          \/ \E i \in 1..Len(Kids(sourceNode[1])) : Kids(sourceNode[1])[i].id = targetId

isDescendant(nodes, nodeId, targetId) ==
  LET sourceNode == findNodeById(nodeId, nodes)
  IN IF sourceNode = None THEN FALSE ELSE checkDescendants(sourceNode[1], targetId)

\* targetParentId is None (null) or Some(id)
IsRootTarget(targetParentId) == targetParentId = None \/ targetParentId = Some(S_root_sentinel)

validateMove(nodes, nodeId, targetParentId) ==
  IF Some(nodeId) = targetParentId THEN Invalid(<<"Cannot move a node to itself">>)
  ELSE LET sourceNode == findNodeById(nodeId, nodes)
       IN IF sourceNode = None THEN Invalid(<<"Source node not found">>)
          ELSE IF ~IsRootTarget(targetParentId) /\ isDescendant(nodes, nodeId, targetParentId[1])
            THEN Invalid(<<"Cannot move a node into its own descendant">>)
          ELSE LET targetNode == IF ~IsRootTarget(targetParentId)
                                   THEN findNodeById(targetParentId[1], nodes) ELSE None
               IN isMoveValid(sourceNode[1], targetNode)

(***************************************************************************)
(* Forest rebuilding helpers of the store                                  *)
(***************************************************************************)
\* generateNodeId(): the k-th generated id, distinct from every other id
generateNodeId(k) == S_node_ \o <<Digit[k]>>
generateLinkId(k) == S_link_ \o <<Digit[k]>>

\* the `filter` closure of removeNodeFromTree: updatedNodes
RECURSIVE filterRemoved(_, _)
filterRemoved(nodeId, items) ==
  IF items = <<>> THEN <<>>
  ELSE LET item == Head(items)
       IN IF item.id = nodeId THEN filterRemoved(nodeId, Tail(items))
          ELSE << IF item.children # None
                    THEN [item EXCEPT !.children = Some(filterRemoved(nodeId, item.children[1]))]
                    ELSE item >> \o filterRemoved(nodeId, Tail(items))

\* the items the `filter` closure matches, in the order it meets them; a
\* matched item is dropped without a visit to its children
RECURSIVE matchedItems(_, _)
matchedItems(nodeId, items) ==
  IF items = <<>> THEN <<>>
  ELSE LET item == Head(items)
       IN (IF item.id = nodeId THEN <<item>>
           ELSE IF item.children # None THEN matchedItems(nodeId, item.children[1]) ELSE <<>>)
          \o matchedItems(nodeId, Tail(items))

\* removedNode is overwritten at every match: the last match stays
removeNodeFromTree(nodeId, nodes) ==
  LET m == matchedItems(nodeId, nodes)
  IN [updatedNodes |-> filterRemoved(nodeId, nodes),
      removedNode |-> IF m = <<>> THEN None ELSE Some(m[Len(m)])]

RECURSIVE addNodeToParent(_, _, _)
addNodeToParent(nodes, parentId, nodeToAdd) ==
  IF IsRootTarget(parentId) THEN nodes \o <<nodeToAdd>>
  ELSE [i \in 1..Len(nodes) |->
          LET node == nodes[i]
          IN IF node.id = parentId[1] THEN [node EXCEPT !.children = Some(Kids(node) \o <<nodeToAdd>>)]
             ELSE IF node.children # None
               THEN [node EXCEPT !.children = Some(addNodeToParent(node.children[1], parentId, nodeToAdd))]
             ELSE node]

\* variant of moveNode that takes the node out of the forest before it looks
\* at the validation
moveNode_removesFirst(nodes, nodeId, targetParentId) ==
  LET validation == validateMove(nodes, nodeId, targetParentId)
      rm == removeNodeFromTree(nodeId, nodes)
  IN IF ~validation.valid THEN [ret |-> validation, tree |-> rm.updatedNodes, failed |-> TRUE]
     ELSE IF rm.removedNode = None
       THEN [ret |-> Invalid(<<"Node not found">>), tree |-> nodes, failed |-> FALSE]
     ELSE [ret |-> Valid, failed |-> FALSE,
           tree |-> addNodeToParent(rm.updatedNodes, targetParentId, rm.removedNode[1])]

\* result of moveNode: the returned validation and the new forest
moveNode(nodes, nodeId, targetParentId) ==
  LET validation == validateMove(nodes, nodeId, targetParentId)
      rm == removeNodeFromTree(nodeId, nodes)
  IN IF ~validation.valid THEN [ret |-> validation, tree |-> nodes, failed |-> TRUE]
     ELSE IF rm.removedNode = None
       THEN [ret |-> Invalid(<<"Node not found">>), tree |-> nodes, failed |-> FALSE]
     ELSE [ret |-> Valid, failed |-> FALSE,
           tree |-> addNodeToParent(rm.updatedNodes, targetParentId, rm.removedNode[1])]

NewNode(id, nodeData) ==
  Leaf(id, nodeData.name, nodeData.unit, nodeData.esg, nodeData.scope, Some("metric"))

\* variant of addToParent that puts the new node in front of the children
RECURSIVE addToParent_firstChild(_, _, _)
addToParent_firstChild(nodes, parentId, newNode) ==
  [i \in 1..Len(nodes) |->
     LET node == nodes[i]
     IN IF node.id = parentId THEN [node EXCEPT !.children = Some(<<newNode>> \o Kids(node))]
        ELSE IF node.children # None
          THEN [node EXCEPT !.children = Some(addToParent_firstChild(node.children[1], parentId, newNode))]
        ELSE node]

\* the addToParent closure of addNode
RECURSIVE addToParent(_, _, _)
addToParent(nodes, parentId, newNode) ==
  [i \in 1..Len(nodes) |->
     LET node == nodes[i]
     IN IF node.id = parentId THEN [node EXCEPT !.children = Some(Kids(node) \o <<newNode>>)]
        ELSE IF node.children # None
          THEN [node EXCEPT !.children = Some(addToParent(node.children[1], parentId, newNode))]
        ELSE node]

addNode(nodes, parentId, nodeData, k) == addToParent(nodes, parentId, NewNode(generateNodeId(k), nodeData))

\* variant of addAsSibling that puts the new node after the match whatever
\* the position
RECURSIVE addAsSibling_alwaysAfter(_, _, _, _)
addAsSibling_alwaysAfter(nodes, siblingId, newNode, position) ==
  IF nodes = <<>> THEN <<>>
  ELSE LET node == Head(nodes)
       IN (IF node.id = siblingId THEN <<node, newNode>>
           ELSE IF node.children # None
             THEN <<[node EXCEPT !.children =
                       Some(addAsSibling_alwaysAfter(node.children[1], siblingId, newNode, position))]>>
           ELSE <<node>>)
          \o addAsSibling_alwaysAfter(Tail(nodes), siblingId, newNode, position)

\* the addAsSibling closure of addSiblingNode
RECURSIVE addAsSibling(_, _, _, _)
addAsSibling(nodes, siblingId, newNode, position) ==
  IF nodes = <<>> THEN <<>>
  ELSE LET node == Head(nodes)
       IN (IF node.id = siblingId
             THEN IF position = "before" THEN <<newNode, node>> ELSE <<node, newNode>>
           ELSE IF node.children # None
             THEN <<[node EXCEPT !.children = Some(addAsSibling(node.children[1], siblingId, newNode, position))]>>
           ELSE <<node>>)
          \o addAsSibling(Tail(nodes), siblingId, newNode, position)

\* `added` of addSiblingNode: some node on the path the closure walks has the
\* id; the closure does not descend below a match
RECURSIVE siblingFound(_, _)
siblingFound(nodes, siblingId) ==
  \E i \in 1..Len(nodes) :
     \/ nodes[i].id = siblingId
     \/ nodes[i].children # None /\ siblingFound(nodes[i].children[1], siblingId)

addSiblingNode(nodes, siblingId, nodeData, position, k) ==
  LET newNode == NewNode(generateNodeId(k), nodeData)
  IN [tree |-> addAsSibling(nodes, siblingId, newNode, position),
      ret |-> IF siblingFound(nodes, siblingId) THEN Some(newNode.id) ELSE None]

\* variant of editNode that rebuilds the edited node without its markers
RECURSIVE editNode_dropsMarkers(_, _, _)
editNode_dropsMarkers(nodes, nodeId, nodeData) ==
  [i \in 1..Len(nodes) |->
     LET node == nodes[i]
     IN IF node.id = nodeId
          THEN [node EXCEPT !.name = nodeData.name, !.unit = nodeData.unit,
                            !.esg = nodeData.esg, !.scope = nodeData.scope, !.markers = <<>>]
        ELSE IF node.children # None
          THEN [node EXCEPT !.children = Some(editNode_dropsMarkers(node.children[1], nodeId, nodeData))]
        ELSE node]

\* the updateNode closure of editNode
RECURSIVE editNode(_, _, _)
editNode(nodes, nodeId, nodeData) ==
  [i \in 1..Len(nodes) |->
     LET node == nodes[i]
     IN IF node.id = nodeId
          THEN [node EXCEPT !.name = nodeData.name, !.unit = nodeData.unit,
                            !.esg = nodeData.esg, !.scope = nodeData.scope]
        ELSE IF node.children # None
          THEN [node EXCEPT !.children = Some(editNode(node.children[1], nodeId, nodeData))]
        ELSE node]

\* variant of deleteNode that filters the top level only
deleteNode_topLevelOnly(nodes, nodeId) ==
  LET keep(node) == node.id # nodeId
  IN SelectSeq(nodes, keep)

\* the removeNode closure of deleteNode
RECURSIVE deleteNode(_, _)
deleteNode(nodes, nodeId) ==
  IF nodes = <<>> THEN <<>>
  ELSE LET node == Head(nodes)
       IN IF node.id = nodeId THEN deleteNode(Tail(nodes), nodeId)
          ELSE << IF node.children # None
                    THEN [node EXCEPT !.children = Some(deleteNode(node.children[1], nodeId))]
                    ELSE node >> \o deleteNode(Tail(nodes), nodeId)

(***************************************************************************)
(* duplicateNode                                                           *)
(***************************************************************************)
\* the clone of a subtree and the next unused id number; generateNodeId is
\* called for a node before it is called for the node's children
RECURSIVE duplicateWithNewIds(_, _)
RECURSIVE duplicateChildren(_, _)
duplicateWithNewIds(node, k) ==
  LET kids == IF node.children # None THEN duplicateChildren(node.children[1], k + 1)
              ELSE [nodes |-> <<>>, next |-> k + 1]
  IN [node |-> [node EXCEPT !.id = generateNodeId(k),
                            !.name = node.name \o S_copy,
                            !.children = IF node.children # None THEN Some(kids.nodes) ELSE None],
      next |-> kids.next]

duplicateChildren(children, k) ==
  IF children = <<>> THEN [nodes |-> <<>>, next |-> k]
  ELSE LET first == duplicateWithNewIds(Head(children), k)
           rest == duplicateChildren(Tail(children), first.next)
       IN [nodes |-> <<first.node>> \o rest.nodes, next |-> rest.next]

\* the addSibling closure of duplicateNode.  After the pushes, the last
\* element of result is the clone when node is the duplicated node; a node
\* that has a children list replaces that last element by a record of eight
\* fields rebuilt from it, with the children of node
RECURSIVE addSibling(_, _, _)
addSibling(nodes, nodeId, duplicatedNode) ==
  IF nodes = <<>> THEN <<>>
  ELSE LET node == Head(nodes)
           pushed == IF node.id = nodeId THEN <<node, duplicatedNode>> ELSE <<node>>
           currentNode == pushed[Len(pushed)]
           rebuilt == [id |-> currentNode.id, name |-> currentNode.name, unit |-> currentNode.unit,
                       esg |-> currentNode.esg, scope |-> currentNode.scope,
                       category |-> currentNode.category,
                       children |-> Some(addSibling(Kids(node), nodeId, duplicatedNode)),
                       isDetached |-> FALSE, relationships |-> <<>>, markers |-> <<>>,
                       position |-> None]
       IN (IF node.children # None
             THEN SubSeq(pushed, 1, Len(pushed) - 1) \o <<rebuilt>>
             ELSE pushed)
          \o addSibling(Tail(nodes), nodeId, duplicatedNode)

\* treeData.value.findIndex(n => n.id === nodeId), 0 when there is none
RootIndex(nodes, nodeId) ==
  IF \E i \in 1..Len(nodes) : nodes[i].id = nodeId
    THEN CHOOSE i \in 1..Len(nodes) : nodes[i].id = nodeId /\ \A j \in 1..(i - 1) : nodes[j].id # nodeId
    ELSE 0

duplicateNode(nodes, nodeId, k) ==
  LET nodeToDuplicate == findNodeById(nodeId, nodes)
  IN IF nodeToDuplicate = None THEN [tree |-> nodes, next |-> k]
     ELSE LET dup == duplicateWithNewIds(nodeToDuplicate[1], k)
              index == RootIndex(nodes, nodeId)
          IN [tree |-> IF index # 0
                         THEN SubSeq(nodes, 1, index) \o <<dup.node>> \o SubSeq(nodes, index + 1, Len(nodes))
                         ELSE addSibling(nodes, nodeId, dup.node),
              next |-> dup.next]

(***************************************************************************)
(* Relationships and markers                                               *)
(***************************************************************************)
HasRelTo(node, targetId) == \E i \in 1..Len(node.relationships) : node.relationships[i].targetId = targetId

\* the updateNode closure of createLink
RECURSIVE addRelationship(_, _, _)
addRelationship(nodes, sourceId, rel) ==
  [i \in 1..Len(nodes) |->
     LET node == nodes[i]
     IN IF node.id = sourceId THEN [node EXCEPT !.relationships = @ \o <<rel>>]
        ELSE IF node.children # None
          THEN [node EXCEPT !.children = Some(addRelationship(node.children[1], sourceId, rel))]
        ELSE node]

\* variant of createLink without the test for an existing record
createLink_noDuplicateCheck(nodes, src, targetId, label, k) ==
  IF src = None \/ src = Some(targetId) THEN [ret |-> FALSE, tree |-> nodes]
  ELSE LET sourceNode == findNodeById(src[1], nodes)
       IN IF sourceNode = None THEN [ret |-> FALSE, tree |-> nodes]
          ELSE [ret |-> TRUE,
                tree |-> addRelationship(nodes, src[1],
                           [id |-> generateLinkId(k), targetId |-> targetId, label |-> label])]

\* createLink with link source src (None or Some(id))
createLink(nodes, src, targetId, label, k) ==
  IF src = None \/ src = Some(targetId) THEN [ret |-> FALSE, tree |-> nodes]
  ELSE LET sourceNode == findNodeById(src[1], nodes)
       IN IF sourceNode = None THEN [ret |-> FALSE, tree |-> nodes]
          ELSE IF HasRelTo(sourceNode[1], targetId) THEN [ret |-> FALSE, tree |-> nodes]
          ELSE [ret |-> TRUE,
                tree |-> addRelationship(nodes, src[1],
                           [id |-> generateLinkId(k), targetId |-> targetId, label |-> label])]

RECURSIVE deleteLink(_, _, _)
deleteLink(nodes, sourceId, targetId) ==
  [i \in 1..Len(nodes) |->
     LET node == nodes[i]
         keep(r) == r.targetId # targetId
     IN IF node.id = sourceId THEN [node EXCEPT !.relationships = SelectSeq(@, keep)]
        ELSE IF node.children # None
          THEN [node EXCEPT !.children = Some(deleteLink(node.children[1], sourceId, targetId))]
        ELSE node]

RECURSIVE updateLinkLabel(_, _, _, _)
updateLinkLabel(nodes, sourceId, targetId, label) ==
  [i \in 1..Len(nodes) |->
     LET node == nodes[i]
     IN IF node.id = sourceId
          THEN [node EXCEPT !.relationships =
                  [j \in 1..Len(@) |-> IF @[j].targetId = targetId THEN [@[j] EXCEPT !.label = Some(label)] ELSE @[j]]]
        ELSE IF node.children # None
          THEN [node EXCEPT !.children = Some(updateLinkLabel(node.children[1], sourceId, targetId, label))]
        ELSE node]

RECURSIVE toggleMarker(_, _, _)
toggleMarker(nodes, nodeId, marker) ==
  [i \in 1..Len(nodes) |->
     LET node == nodes[i]
         other(m) == m # marker
         hasMarker == \E j \in 1..Len(node.markers) : node.markers[j] = marker
     IN IF node.id = nodeId
          THEN [node EXCEPT !.markers = IF hasMarker THEN SelectSeq(@, other) ELSE @ \o <<marker>>]
        ELSE IF node.children # None
          THEN [node EXCEPT !.children = Some(toggleMarker(node.children[1], nodeId, marker))]
        ELSE node]

\* buildNodeIdMap(nodes).get(id): a later node of the traversal overwrites an
\* earlier one with the same id
nodeMapGet(nodes, id) ==
  LET flat == Flatten(nodes)
      hits == {i \in 1..Len(flat) : flat[i].id = id}
  IN IF hits = {} THEN None ELSE Some(flat[CHOOSE i \in hits : \A j \in hits : j <= i])

\* every (node, relationship record) of the forest in the order traverse
\* visits them
RECURSIVE RelRecords(_)
RelRecords(flat) ==
  IF flat = <<>> THEN <<>>
  ELSE [j \in 1..Len(Head(flat).relationships) |-> [node |-> Head(flat), rel |-> Head(flat).relationships[j]]]
       \o RelRecords(Tail(flat))

RelKey(nodeId, targetId) == nodeId \o <<"-">> \o targetId

\* a view that lists a record whether or not its target is in the forest
RECURSIVE collectVisible_keepsDangling(_, _, _)
collectVisible_keepsDangling(nodes, recs, seen) ==
  IF recs = <<>> THEN <<>>
  ELSE LET node == Head(recs).node
           rel == Head(recs).rel
           key == RelKey(node.id, rel.targetId)
           target == nodeMapGet(nodes, rel.targetId)
       IN IF EndsWith(rel.id, S_reverse) THEN collectVisible_keepsDangling(nodes, Tail(recs), seen)
          ELSE IF key \in seen THEN collectVisible_keepsDangling(nodes, Tail(recs), seen)
          ELSE <<[source |-> node,
                  target |-> IF target # None THEN target[1] ELSE [node EXCEPT !.id = rel.targetId],
                  label |-> rel.label]>>
               \o collectVisible_keepsDangling(nodes, Tail(recs), seen \cup {key})

RECURSIVE collectVisible(_, _, _)
collectVisible(nodes, recs, seen) ==
  IF recs = <<>> THEN <<>>
  ELSE LET node == Head(recs).node
           rel == Head(recs).rel
           key == RelKey(node.id, rel.targetId)
           target == nodeMapGet(nodes, rel.targetId)
       IN IF EndsWith(rel.id, S_reverse) THEN collectVisible(nodes, Tail(recs), seen)
          ELSE IF key \in seen THEN collectVisible(nodes, Tail(recs), seen)
          ELSE (IF target # None
                  THEN <<[source |-> node, target |-> target[1], label |-> rel.label]>>
                  ELSE <<>>)
               \o collectVisible(nodes, Tail(recs), seen \cup {key})

getAllRelationships(nodes) == collectVisible(nodes, RelRecords(Flatten(nodes)), {})

(***************************************************************************)
(* XMind import (fileExport.ts)                                            *)
(***************************************************************************)
\* An XMindTopic: attributedTitle is None or Some(sequence of texts); the
\* child groups children.attached, children.detached and summary are
\* sequences, empty when the document has none
Topic(id, title, attributedTitle, markers, attached, detached, summary) ==
  [id |-> id, title |-> title, attributedTitle |-> attributedTitle, position |-> None,
   markers |-> markers, attached |-> attached, detached |-> detached, summary |-> summary]

WhiteSpace == {" ", "\t", "\n"}
S_Untitled == <<"U","n","t","i","t","l","e","d">>
S_summary == <<"s","u","m","m","a","r","y">>
S_back_arrow == <<"←"," ">>

MinOf(S) == CHOOSE x \in S : \A y \in S : x <= y
MaxOf(S) == CHOOSE x \in S : \A y \in S : y <= x

\* String.prototype.trim
Trim(s) ==
  LET solid == {i \in 1..Len(s) : s[i] \notin WhiteSpace}
  IN IF solid = {} THEN <<>> ELSE SubSeq(s, MinOf(solid), MaxOf(solid))

RECURSIVE JoinTexts(_)
JoinTexts(texts) == IF texts = <<>> THEN <<>> ELSE Head(texts) \o JoinTexts(Tail(texts))

\* the part \s*\(([^)]+)\)\s*$ of the title pattern applied to a whole
\* string: Some(group 2) when it matches, None otherwise
UnitTail(r) ==
  LET solid == {i \in 1..Len(r) : r[i] \notin WhiteSpace}
  IN IF solid = {} THEN None
     ELSE LET open == MinOf(solid)
              closes == {i \in (open + 1)..Len(r) : r[i] = ")"}
          IN IF r[open] # "(" \/ closes = {} THEN None
             ELSE LET close == MinOf(closes)
                  IN IF close = open + 1 THEN None
                     ELSE IF \E i \in (close + 1)..Len(r) : r[i] \notin WhiteSpace THEN None
                     ELSE Some(SubSeq(r, open + 1, close - 1))

\* title.match(/^(.+?)\s*\(([^)]+)\)\s*$/): the lazy first group takes the
\* fewest characters, at least one, that let the rest match
TitleMatch(title) ==
  LET ks == {k \in 1..Len(title) : UnitTail(SubSeq(title, k + 1, Len(title))) # None}
  IN IF ks = {} THEN None
     ELSE LET k == MinOf(ks)
          IN Some([g1 |-> SubSeq(title, 1, k), g2 |-> UnitTail(SubSeq(title, k + 1, Len(title)))[1]])

RECURSIVE xmindTopicToKPINode(_, _)
xmindTopicToKPINode(topic, isDetached) ==
  LET title == IF topic.attributedTitle # None /\ topic.attributedTitle[1] # <<>>
                 THEN JoinTexts(topic.attributedTitle[1])
                 ELSE IF topic.title # <<>> THEN topic.title ELSE S_Untitled
      unitMatch == TitleMatch(title)
      attached == [i \in 1..Len(topic.attached) |-> xmindTopicToKPINode(topic.attached[i], FALSE)]
      summary == [i \in 1..Len(topic.summary) |->
                    LET summaryNode == xmindTopicToKPINode(topic.summary[i], FALSE)
                    IN [summaryNode EXCEPT !.markers = @ \o <<S_summary>>]]
      children == attached \o summary
  IN [id |-> topic.id,
      name |-> IF unitMatch # None THEN Trim(unitMatch[1].g1) ELSE title,
      unit |-> IF unitMatch # None THEN Some(Trim(unitMatch[1].g2)) ELSE None,
      esg |-> None, scope |-> None, category |-> None,
      children |-> IF children # <<>> THEN Some(children) ELSE None,
      isDetached |-> isDetached,
      relationships |-> <<>>,
      markers |-> topic.markers,
      position |-> topic.position]

\* position in the traversal of the node buildNodeIdMap keeps for an id, 0
\* when no node has the id
nodeMapIndex(nodes, id) ==
  LET flat == Flatten(nodes)
      hits == {i \in 1..Len(flat) : flat[i].id = id}
  IN IF hits = {} THEN 0 ELSE MaxOf(hits)

\* node.relationships.push(rel) on the k-th node of the traversal
RECURSIVE pushRelationship(_, _, _)
pushRelationship(nodes, k, rel) ==
  IF nodes = <<>> THEN <<>>
  ELSE LET node == Head(nodes)
           size == 1 + NodeCount(Kids(node))
       IN IF k = 1 THEN <<[node EXCEPT !.relationships = @ \o <<rel>>]>> \o Tail(nodes)
          ELSE IF k <= size
            THEN <<[node EXCEPT !.children = Some(pushRelationship(node.children[1], k - 1, rel))]>> \o Tail(nodes)
          ELSE <<node>> \o pushRelationship(Tail(nodes), k - size, rel)

\* An XMindRelationship: title and attributedTitle are None or Some(..)
RelLabel(rel) ==
  IF rel.attributedTitle # None /\ rel.attributedTitle[1] # <<>>
    THEN Some(JoinTexts(rel.attributedTitle[1]))
    ELSE rel.title

\* variant of processRelationships that adds the reverse edge without
\* looking for an edge back
RECURSIVE processRelationships_alwaysReverse(_, _)
processRelationships_alwaysReverse(nodes, relationships) ==
  IF relationships = <<>> THEN nodes
  ELSE LET rel == Head(relationships)
           source == nodeMapIndex(nodes, rel.end1Id)
           target == nodeMapIndex(nodes, rel.end2Id)
           label == RelLabel(rel)
           withForward == pushRelationship(nodes, source,
                            [id |-> rel.id, targetId |-> rel.end2Id, label |-> label])
           withReverse == pushRelationship(withForward, target,
                            [id |-> rel.id \o S_reverse, targetId |-> rel.end1Id,
                             label |-> IF label # None /\ label[1] # <<>>
                                         THEN Some(S_back_arrow \o label[1]) ELSE None])
       IN IF source # 0 /\ target # 0
            THEN processRelationships_alwaysReverse(withReverse, Tail(relationships))
            ELSE processRelationships_alwaysReverse(nodes, Tail(relationships))

RECURSIVE processRelationships(_, _)
processRelationships(nodes, relationships) ==
  IF relationships = <<>> THEN nodes
  ELSE LET rel == Head(relationships)
           source == nodeMapIndex(nodes, rel.end1Id)
           target == nodeMapIndex(nodes, rel.end2Id)
           label == RelLabel(rel)
           withForward == pushRelationship(nodes, source,
                            [id |-> rel.id, targetId |-> rel.end2Id, label |-> label])
           hasReverse == HasRelTo(Flatten(withForward)[target], rel.end1Id)
           withReverse == IF hasReverse THEN withForward
                          ELSE pushRelationship(withForward, target,
                                 [id |-> rel.id \o S_reverse, targetId |-> rel.end1Id,
                                  label |-> IF label # None /\ label[1] # <<>>
                                              THEN Some(S_back_arrow \o label[1]) ELSE None])
       IN IF source # 0 /\ target # 0
            THEN processRelationships(withReverse, Tail(relationships))
            ELSE processRelationships(nodes, Tail(relationships))

\* the nodes and the pooled relationship records of the sheets of content.json
RECURSIVE sheetNodes(_)
sheetNodes(sheets) ==
  IF sheets = <<>> THEN <<>>
  ELSE LET sheet == Head(sheets)
       IN (IF sheet.rootTopic # None
             THEN <<xmindTopicToKPINode(sheet.rootTopic[1], FALSE)>>
                  \o [i \in 1..Len(sheet.rootTopic[1].detached) |->
                        xmindTopicToKPINode(sheet.rootTopic[1].detached[i], TRUE)]
             ELSE <<>>)
          \o sheetNodes(Tail(sheets))

RECURSIVE sheetRelationships(_)
sheetRelationships(sheets) ==
  IF sheets = <<>> THEN <<>>
  ELSE Head(sheets).relationships \o sheetRelationships(Tail(sheets))

\* importFromXMind of an archive whose content.json holds the sheets
importFromXMind(sheets) ==
  LET allNodes == sheetNodes(sheets)
      allRelationships == sheetRelationships(sheets)
  IN IF allRelationships # <<>> THEN processRelationships(allNodes, allRelationships) ELSE allNodes

ID_t1 == <<"t","1">>
ID_t2 == <<"t","2">>
ID_t3 == <<"t","3">>

\* one sheet: T > [ "Rev ($)", K ], a floating topic, a labelled relationship
\* t2 -> t3 and a relationship to an id of no topic
DocLinked ==
  << [rootTopic |-> Some(Topic(ID_t1, <<"T">>, None, <<>>,
                     << Topic(ID_t2, <<"R","e","v"," ","(","$",")">>, None, <<>>, <<>>, <<>>, <<>>),
                        Topic(ID_t3, <<"K">>, Some(<< <<"K">> >>), <<>>, <<>>, <<>>, <<>>) >>,
                     << Topic(ID_x1, <<"L">>, None, <<>>, <<>>, <<>>, <<>>) >>,
                     <<>>)),
      relationships |-> << [id |-> <<"r","1">>, end1Id |-> ID_t2, end2Id |-> ID_t3,
                            title |-> Some(<<"D">>), attributedTitle |-> None],
                           [id |-> <<"r","2">>, end1Id |-> ID_t1, end2Id |-> ID_ghost,
                            title |-> None, attributedTitle |-> None] >>] >>

ID_a == <<"a">>
ID_a_b == <<"a","-","b">>
ID_b_a == <<"b","-","a">>

\* one sheet whose topic ids contain '-': a-b > [ a, b-a ] and a relationship
\* a-b -> a
DocDashed ==
  << [rootTopic |-> Some(Topic(ID_a_b, <<"T">>, None, <<>>,
                     << Topic(ID_a, <<"K">>, None, <<>>, <<>>, <<>>, <<>>),
                        Topic(ID_b_a, <<"L">>, None, <<>>, <<>>, <<>>, <<>>) >>,
                     <<>>, <<>>)),
      relationships |-> << [id |-> <<"r","1">>, end1Id |-> ID_a_b, end2Id |-> ID_a,
                            title |-> None, attributedTitle |-> None] >>] >>

XMindDocs == {DocLinked, DocDashed}

ID_p1 == <<"p","1">>
ID_p2 == <<"p","2">>
ID_p3 == <<"p","3">>
ID_q1 == <<"q","1">>

\* two sheets: P > [ "Rev ($)" ] with a floating topic, and Q; the first
\* sheet holds a labelled relationship p2 -> q1 to a topic of the second
\* sheet and a relationship q1 -> p2 back; the second sheet holds a
\* relationship to an id of no topic
DocPooled ==
  << [rootTopic |-> Some(Topic(ID_p1, <<"P">>, None, <<>>,
                     << Topic(ID_p2, <<"R","e","v"," ","(","$",")">>, None, <<>>, <<>>, <<>>, <<>>) >>,
                     << Topic(ID_p3, <<"L">>, None, <<>>, <<>>, <<>>, <<>>) >>,
                     <<>>)),
      relationships |-> << [id |-> <<"r","1">>, end1Id |-> ID_p2, end2Id |-> ID_q1,
                            title |-> Some(<<"D">>), attributedTitle |-> None],
                           [id |-> <<"r","2">>, end1Id |-> ID_q1, end2Id |-> ID_p2,
                            title |-> None, attributedTitle |-> None] >>],
     [rootTopic |-> Some(Topic(ID_q1, <<"Q">>, None, <<>>, <<>>, <<>>, <<>>)),
      relationships |-> << [id |-> <<"r","3">>, end1Id |-> ID_q1, end2Id |-> ID_ghost,
                            title |-> None, attributedTitle |-> None] >>] >>

\* the .xmind files a user may pick for the import
XMindFiles == {DocLinked, DocPooled}

(***************************************************************************)
(* XMind export (fileExport.ts)                                            *)
(***************************************************************************)
S_open_paren == <<" ","(">>
S_close_paren == <<")">>
S_Root == <<"R","o","o","t">>
ID_generated == <<"x","m","i","n","d","-","i","d">>

\* node.children?.filter(c => !c.isDetached) || [] and its counterpart
AttachedOf(nodes) == LET keep(n) == ~n.isDetached IN SelectSeq(nodes, keep)
DetachedOf(nodes) == LET keep(n) == n.isDetached IN SelectSeq(nodes, keep)

\* the topic of a node; `class` is left out, no reader of the document in
\* this program looks at it
RECURSIVE kpiNodeToXMindTopic(_)
kpiNodeToXMindTopic(node) ==
  LET title == node.name \o (IF node.unit # None /\ node.unit[1] # <<>>
                               THEN S_open_paren \o node.unit[1] \o S_close_paren
                               ELSE <<>>)
      attachedChildren == AttachedOf(Kids(node))
      detachedChildren == DetachedOf(Kids(node))
  IN [id |-> node.id, title |-> title, attributedTitle |-> Some(<<title>>),
      position |-> node.position, markers |-> node.markers,
      attached |-> [i \in 1..Len(attachedChildren) |-> kpiNodeToXMindTopic(attachedChildren[i])],
      detached |-> [i \in 1..Len(detachedChildren) |-> kpiNodeToXMindTopic(detachedChildren[i])],
      summary |-> <<>>]

\* the relationship records of the nodes of a forest, in traversal order
collectRelationships(nodes) ==
  LET recs == RelRecords(Flatten(nodes))
  IN [i \in 1..Len(recs) |->
        [id |-> recs[i].rel.id, end1Id |-> recs[i].node.id, end2Id |-> recs[i].rel.targetId,
         title |-> recs[i].rel.label,
         attributedTitle |-> IF recs[i].rel.label # None /\ recs[i].rel.label[1] # <<>>
                               THEN Some(<<recs[i].rel.label[1]>>) ELSE None]]

\* variant of exportToXMind that adds the detached nodes to every sheet
exportToXMind_detachedOnEverySheet(data) ==
  LET rootNodes == AttachedOf(data)
      detachedNodes == DetachedOf(data)
      floating == [i \in 1..Len(detachedNodes) |-> kpiNodeToXMindTopic(detachedNodes[i])]
      sheet(index) ==
        LET rootTopic == kpiNodeToXMindTopic(rootNodes[index])
        IN [rootTopic |-> Some(IF detachedNodes # <<>>
                                 THEN [rootTopic EXCEPT !.detached = floating]
                                 ELSE rootTopic),
            relationships |-> collectRelationships(IF index = 1 THEN data ELSE <<rootNodes[index]>>)]
  IN IF rootNodes = <<>> /\ detachedNodes # <<>>
       THEN << [rootTopic |-> Some(Topic(ID_generated, S_Root, Some(<<S_Root>>), <<>>, <<>>, floating, <<>>)),
                relationships |-> <<>>] >>
       ELSE [index \in 1..Len(rootNodes) |-> sheet(index)]

\* the sheets exportToXMind writes to content.json: one per attached root;
\* the id and the title of a sheet are left out, the import reads neither
exportToXMind(data) ==
  LET rootNodes == AttachedOf(data)
      detachedNodes == DetachedOf(data)
      floating == [i \in 1..Len(detachedNodes) |-> kpiNodeToXMindTopic(detachedNodes[i])]
      sheet(index) ==
        LET rootTopic == kpiNodeToXMindTopic(rootNodes[index])
        IN [rootTopic |-> Some(IF index = 1 /\ detachedNodes # <<>>
                                 THEN [rootTopic EXCEPT !.detached = floating]
                                 ELSE rootTopic),
            relationships |-> collectRelationships(IF index = 1 THEN data ELSE <<rootNodes[index]>>)]
  IN IF rootNodes = <<>> /\ detachedNodes # <<>>
       THEN << [rootTopic |-> Some(Topic(ID_generated, S_Root, Some(<<S_Root>>), <<>>, <<>>, floating, <<>>)),
                relationships |-> <<>>] >>
       ELSE [index \in 1..Len(rootNodes) |-> sheet(index)]

(***************************************************************************)
(* Tab manager (useTabManager.ts)                                          *)
(***************************************************************************)
ID_financial == <<"f","i","n","a","n","c","i","a","l">>
ID_operational == <<"o","p","e","r","a","t","i","o","n","a","l">>
ID_buma == <<"b","u","m","a">>
ID_consolidated == <<"c","o","n","s","o","l","i","d","a","t","e","d">>
S_Financial == <<"F","i","n","a","n","c","i","a","l">>
S_Operational == <<"O","p","e","r","a","t","i","o","n","a","l">>
S_BUMA == <<"B","U","M","A">>
S_Consolidated == <<"C","o","n","s","o","l","i","d","a","t","e","d">>
S_tab_ == <<"t","a","b","-">>
S_root_ == <<"r","o","o","t","-">>
S_Copy == <<" ","(","C","o","p","y",")">>

PresetViewType == {ID_financial, ID_operational, ID_buma, ID_consolidated}

\* the consolidated data set: one root
DataConsolidated == << Leaf(ID_ebitda, <<"E">>, None, None, None, None) >>

\* JSON.parse(JSON.stringify(nodes)) of KPINode data: every field the store
\* and the codec write is a string, a number, a boolean, a list or a plain
\* object and is rebuilt; a field that is undefined is left out and is
\* undefined again after parsing
RECURSIVE jsonClone(_)
jsonClone(nodes) ==
  [i \in 1..Len(nodes) |->
     LET node == nodes[i]
     IN [id |-> node.id, name |-> node.name, unit |-> node.unit, esg |-> node.esg,
         scope |-> node.scope, category |-> node.category,
         children |-> IF node.children # None THEN Some(jsonClone(node.children[1])) ELSE None,
         isDetached |-> node.isDetached,
         relationships |-> [j \in 1..Len(node.relationships) |->
                              [id |-> node.relationships[j].id,
                               targetId |-> node.relationships[j].targetId,
                               label |-> node.relationships[j].label]],
         markers |-> node.markers,
         position |-> node.position]]

\* presetTabs: the name and the data set of a preset view
presetTabs(presetType) ==
  CASE presetType = ID_financial -> [name |-> S_Financial, data |-> jsonClone(DataFinancial)]
    [] presetType = ID_operational -> [name |-> S_Operational, data |-> jsonClone(DataOperational)]
    [] presetType = ID_buma -> [name |-> S_BUMA, data |-> jsonClone(DataMetrics)]
    [] presetType = ID_consolidated -> [name |-> S_Consolidated, data |-> jsonClone(DataConsolidated)]

\* generateTabId(): the k-th generated id, distinct from every other id
generateTabId(k) == S_tab_ \o <<Digit[k]>>

createPresetTab(presetType) ==
  [id |-> presetType, name |-> presetTabs(presetType).name, isPreset |-> TRUE,
   presetType |-> Some(presetType), data |-> presetTabs(presetType).data,
   expandedNodes |-> {}, searchTerm |-> <<>>, showESGOnly |-> FALSE]

\* Array.from(set) and new Set(array)
RECURSIVE ArrayFrom(_)
ArrayFrom(S) ==
  IF S = {} THEN <<>>
  ELSE LET x == CHOOSE y \in S : TRUE IN <<x>> \o ArrayFrom(S \ {x})

NewSet(a) == {a[i] : i \in 1..Len(a)}

serializeTabState(tab) == [tab EXCEPT !.expandedNodes = ArrayFrom(@)]

deserializeTabState(obj) == [obj EXCEPT !.expandedNodes = NewSet(@)]

\* What localStorage holds under STORAGE_KEY: nothing (None), or a text that
\* is empty, that JSON.parse rejects, or that parses to a value.  A value is
\* null, a number, a string, an array of items or an object with the
\* optional fields tabs and activeTabId; an item of the tab array is null or
\* a serialized tab
TextEmpty == [text |-> "empty"]
TextUnparsable == [text |-> "unparsable"]
TextJson(v) == [text |-> "json", value |-> v]
JNull == [j |-> "null"]
JNumber == [j |-> "number"]
JString == [j |-> "string"]
JArray(items) == [j |-> "array", items |-> items]
JTab(t) == [j |-> "tab", tab |-> t]
JObject(tabsField, activeField) == [j |-> "object", tabs |-> tabsField, activeTabId |-> activeField]

\* saveTabs: the text written to localStorage
saveTabs(ts, active) ==
  Some(TextJson(JObject(
    Some(JArray([i \in 1..Len(ts) |->
                   JTab([serializeTabState(ts[i]) EXCEPT !.data = jsonClone(@)])])),
    Some(active))))

DefaultTabs ==
  [tabs |-> << createPresetTab(ID_consolidated), createPresetTab(ID_financial),
               createPresetTab(ID_operational), createPresetTab(ID_buma) >>,
   activeTabId |-> ID_consolidated]

\* variant of the callback that keeps the persisted data of a preset tab
restoreTab_persistedData(t) == deserializeTabState(t)

\* the callback of parsed.tabs.map in initializeTabs
restoreTab(t) ==
  IF t.isPreset /\ t.presetType # None /\ t.presetType[1] \in PresetViewType
    THEN [createPresetTab(t.presetType[1]) EXCEPT
            !.expandedNodes = NewSet(t.expandedNodes),
            !.searchTerm = t.searchTerm,
            !.showESGOnly = t.showESGOnly]
    ELSE deserializeTabState(t)

\* initializeTabs: the tab list and the active id it ends with.  An absent
\* or empty text skips the restore; JSON.parse of an unparsable text, the
\* property read `parsed.tabs` of null, the call of `map` on a value that is
\* undefined or has no such method, and the property read `t.isPreset` of a
\* null item throw before tabs.value is assigned, and the catch falls
\* through to the default set
initializeTabs(saved) ==
  IF saved = None \/ saved[1].text # "json" THEN DefaultTabs
  ELSE LET parsed == saved[1].value
       IN IF parsed.j # "object" THEN DefaultTabs
          ELSE IF parsed.tabs = None THEN DefaultTabs
          ELSE IF parsed.tabs[1].j # "array" THEN DefaultTabs
          ELSE IF \E i \in 1..Len(parsed.tabs[1].items) : parsed.tabs[1].items[i].j = "null"
            THEN DefaultTabs
          ELSE [tabs |-> [i \in 1..Len(parsed.tabs[1].items) |-> restoreTab(parsed.tabs[1].items[i].tab)],
                activeTabId |-> IF parsed.activeTabId # None /\ parsed.activeTabId[1] # <<>>
                                  THEN parsed.activeTabId[1] ELSE ID_consolidated]

\* tabs.value.findIndex(t => t.id === tabId), counted from 1; 0 when no tab
\* has the id
TabIndex(ts, tabId) ==
  LET hits == {i \in 1..Len(ts) : ts[i].id = tabId}
  IN IF hits = {} THEN 0 ELSE MinOf(hits)

\* the computed activeTab: the tab with the active id, else the first tab
activeTab(ts, active) ==
  IF TabIndex(ts, active) # 0 THEN Some(ts[TabIndex(ts, active)])
  ELSE IF ts # <<>> THEN Some(ts[1])
  ELSE None

\* each operation gives the tab list and the active id it leaves

\* variant of setActiveTab that takes the id without looking at the list
setActiveTab_anyId(ts, active, tabId) == [tabs |-> ts, activeTabId |-> tabId]

setActiveTab(ts, active, tabId) ==
  [tabs |-> ts, activeTabId |-> IF TabIndex(ts, tabId) # 0 THEN tabId ELSE active]

addNewTab(ts, active, name, data, k) ==
  LET newTab == [id |-> generateTabId(k), name |-> name, isPreset |-> FALSE,
                 presetType |-> None, data |-> jsonClone(data),
                 expandedNodes |-> {}, searchTerm |-> <<>>, showESGOnly |-> FALSE]
  IN [tabs |-> Append(ts, newTab), activeTabId |-> newTab.id]

\* variant of duplicateTab that puts the copy at the end of the list
duplicateTab_appendsCopy(ts, active, tabId, k) ==
  LET sourceIndex == TabIndex(ts, tabId)
      sourceTab == ts[sourceIndex]
      newTab == [id |-> generateTabId(k), name |-> sourceTab.name \o S_Copy,
                 isPreset |-> FALSE, presetType |-> None,
                 data |-> jsonClone(sourceTab.data),
                 expandedNodes |-> sourceTab.expandedNodes,
                 searchTerm |-> sourceTab.searchTerm,
                 showESGOnly |-> sourceTab.showESGOnly]
  IN IF sourceIndex = 0 THEN [tabs |-> ts, activeTabId |-> active]
     ELSE [tabs |-> Append(ts, newTab), activeTabId |-> newTab.id]

\* duplicateTab(tabId) without a new name
duplicateTab(ts, active, tabId, k) ==
  LET sourceIndex == TabIndex(ts, tabId)
      sourceTab == ts[sourceIndex]
      newTab == [id |-> generateTabId(k), name |-> sourceTab.name \o S_Copy,
                 isPreset |-> FALSE, presetType |-> None,
                 data |-> jsonClone(sourceTab.data),
                 expandedNodes |-> sourceTab.expandedNodes,
                 searchTerm |-> sourceTab.searchTerm,
                 showESGOnly |-> sourceTab.showESGOnly]
  IN IF sourceIndex = 0 THEN [tabs |-> ts, activeTabId |-> active]
     ELSE [tabs |-> SubSeq(ts, 1, sourceIndex) \o <<newTab>> \o SubSeq(ts, sourceIndex + 1, Len(ts)),
           activeTabId |-> newTab.id]

\* variant of closeTab that always activates the tab before the closed one
closeTab_activatesPrevious(ts, active, tabId) ==
  LET index == TabIndex(ts, tabId)
      rest == SubSeq(ts, 1, index - 1) \o SubSeq(ts, index + 1, Len(ts))
  IN IF index = 0 \/ ts[index].isPreset THEN [tabs |-> ts, activeTabId |-> active]
     ELSE [tabs |-> rest,
           activeTabId |-> IF active = tabId
                             THEN (IF index - 1 >= 1 THEN rest[index - 1].id ELSE ID_consolidated)
                             ELSE active]

closeTab(ts, active, tabId) ==
  LET index == TabIndex(ts, tabId)
      rest == SubSeq(ts, 1, index - 1) \o SubSeq(ts, index + 1, Len(ts))
      newIndex == IF index <= Len(rest) THEN index ELSE Len(rest)
  IN IF index = 0 \/ ts[index].isPreset THEN [tabs |-> ts, activeTabId |-> active]
     ELSE [tabs |-> rest,
           activeTabId |-> IF active = tabId
                             THEN (IF newIndex >= 1 THEN rest[newIndex].id ELSE ID_consolidated)
                             ELSE active]

\* variant of renameTab that renames preset tabs too
renameTab_anyTab(ts, tabId, newName) ==
  LET index == TabIndex(ts, tabId)
  IN IF index # 0 THEN [ts EXCEPT ![index].name = newName] ELSE ts

renameTab(ts, tabId, newName) ==
  LET index == TabIndex(ts, tabId)
  IN IF index # 0 /\ ~ts[index].isPreset THEN [ts EXCEPT ![index].name = newName] ELSE ts

\* variant of updateTabData that writes the data to every tab
updateTabData_everyTab(ts, tabId, data) ==
  [i \in 1..Len(ts) |-> [ts[i] EXCEPT !.data = data]]

updateTabData(ts, tabId, data) ==
  LET index == TabIndex(ts, tabId)
  IN IF index # 0 THEN [ts EXCEPT ![index].data = data] ELSE ts

updateTabExpandedNodes(ts, tabId, expandedNodes) ==
  LET index == TabIndex(ts, tabId)
  IN IF index # 0 THEN [ts EXCEPT ![index].expandedNodes = expandedNodes] ELSE ts

updateTabSearchTerm(ts, tabId, searchTerm) ==
  LET index == TabIndex(ts, tabId)
  IN IF index # 0 THEN [ts EXCEPT ![index].searchTerm = searchTerm] ELSE ts

updateTabShowESGOnly(ts, tabId, showESGOnly) ==
  LET index == TabIndex(ts, tabId)
  IN IF index # 0 THEN [ts EXCEPT ![index].showESGOnly = showESGOnly] ELSE ts

(***************************************************************************)
(* The view (KPITree.vue) and the file modal (FileManagementModal.vue)     *)
(***************************************************************************)
\* findMatchingNodesAndAncestors(nodes, searchTerm).expandIds: the ids of
\* the nodes above a node whose name or unit includes the term
Matches(node, lowerSearch) ==
  \/ Includes(toLowerCase(node.name), lowerSearch)
  \/ node.unit # None /\ Includes(toLowerCase(node.unit[1]), lowerSearch)

RECURSIVE HasMatch(_, _)
HasMatch(nodes, lowerSearch) ==
  \E i \in 1..Len(nodes) : Matches(nodes[i], lowerSearch) \/ HasMatch(Kids(nodes[i]), lowerSearch)

RECURSIVE expandIds(_, _)
expandIds(nodes, lowerSearch) ==
  UNION {(IF HasMatch(Kids(nodes[i]), lowerSearch) THEN {nodes[i].id} ELSE {})
           \cup expandIds(Kids(nodes[i]), lowerSearch) : i \in 1..Len(nodes)}

findMatchingNodesAndAncestors(nodes, searchTerm) == expandIds(nodes, toLowerCase(searchTerm))

\* the computed currentSearchTerm: activeTab?.searchTerm || ''
currentSearchTerm(ts, active) ==
  IF activeTab(ts, active) # None THEN activeTab(ts, active)[1].searchTerm ELSE <<>>

\* importFromJson: the file's text does not parse, parses to a value that
\* is no array, or parses to an array
JsonUnparsable == [json |-> "unparsable"]
JsonValue(v) == [json |-> "value", value |-> v]
JsonArray(data) == [json |-> "array", data |-> data]

\* variant of importFromJson that resolves with an empty forest for a value
\* that is no array
importFromJson_acceptsAnyValue(file) ==
  IF file.json = "unparsable" THEN [ok |-> FALSE, error |-> "Failed to parse JSON file"]
  ELSE IF file.json = "array" THEN [ok |-> TRUE, data |-> file.data]
  ELSE [ok |-> TRUE, data |-> <<>>]

importFromJson(file) ==
  IF file.json = "unparsable" THEN [ok |-> FALSE, error |-> "Failed to parse JSON file"]
  ELSE IF file.json = "array" THEN [ok |-> TRUE, data |-> file.data]
  ELSE [ok |-> FALSE, error |-> "Invalid JSON format: expected an array of KPI nodes"]

\* an .xmind archive: content.json is missing (None) or holds the sheets,
\* content.xml is there or not
Archive(content, xml) == [content |-> content, xml |-> xml]

\* importFromXMind of an archive
importFromXMindFile(file) ==
  IF file.content # None THEN [ok |-> TRUE, data |-> importFromXMind(file.content[1])]
  ELSE IF file.xml
    THEN [ok |-> FALSE,
          error |-> "Legacy XMind XML format is not supported. Please use XMind Zen (.xmind) files."]
  ELSE [ok |-> FALSE, error |-> "Invalid XMind file: could not find content.json or content.xml"]

\* What follows an operation of the tab manager that leaves the tab list
\* and the active id st: the watcher of activeTabId loads the data of the
\* active tab into the store, the watcher of currentSearchTerm expands the
\* nodes above the matches of a new, non-empty term, and the watcher of the
\* tab state saves it
TabEffects(st) ==
  \E s \in {st} :
  \E tab \in {activeTab(s.tabs, s.activeTabId)} :
  \E loaded \in {IF s.activeTabId # activeTabId /\ tab # None
                   THEN jsonClone(tab[1].data) ELSE treeData} :
  \E term \in {currentSearchTerm(s.tabs, s.activeTabId)} :
  \E ids \in {IF term # currentSearchTerm(tabs, activeTabId) /\ term # <<>>
                THEN findMatchingNodesAndAncestors(loaded, term) ELSE {}} :
  \E final \in {IF ids # {}
                  THEN updateTabExpandedNodes(s.tabs, tab[1].id, tab[1].expandedNodes \cup ids)
                  ELSE s.tabs} :
    /\ tabs' = final
    /\ activeTabId' = s.activeTabId
    /\ treeData' = loaded
    /\ storage' = IF final # tabs \/ s.activeTabId # activeTabId
                    THEN saveTabs(final, s.activeTabId) ELSE storage

\* the tab list after the watcher of currentSearchTerm ran for the first
\* time: the active tab tab of st has the nodes above the matches expanded
WithExpanded(st, tab, loaded) ==
  LET ids == IF tab # None /\ tab[1].searchTerm # <<>>
               THEN findMatchingNodesAndAncestors(loaded, tab[1].searchTerm) ELSE {}
  IN IF ids # {}
       THEN updateTabExpandedNodes(st.tabs, tab[1].id, tab[1].expandedNodes \cup ids)
       ELSE st.tabs

\* the state onMounted leaves when localStorage holds saved: initializeTabs,
\* initStore with the data of the active tab, and the watchers
Mounted(saved) ==
  CHOOSE m \in
    UNION { UNION { UNION { { [tabs |-> final, activeTabId |-> st.activeTabId, treeData |-> loaded,
                               storage |-> saveTabs(final, st.activeTabId)]
                              : final \in {WithExpanded(st, tab, loaded)} }
                            : loaded \in {IF tab # None THEN jsonClone(tab[1].data) ELSE <<>>} }
                    : tab \in {activeTab(st.tabs, st.activeTabId)} }
            : st \in {initializeTabs(saved)} } : TRUE

(***************************************************************************)
(* Inputs                                                                  *)
(***************************************************************************)
\* ids a caller may pass: every id of the forest and one id of no node
IdInputs == IdsOf(treeData) \cup {ID_ghost}
TargetInputs == {None, Some(S_root_sentinel)} \cup {Some(id) : id \in IdInputs}

NewNodeDatas ==
  { [name |-> <<"F","u","e","l">>, unit |-> Some(<<"k","g">>), esg |-> Some("G"), scope |-> Some(2)] }

\* what the edit form may submit: a field may be set and a field may be left out
EditDatas ==
  { [name |-> <<"Z">>, unit |-> None, esg |-> Some("G"), scope |-> Some(2)] }

\* an edit that gives a node a name ending in a parenthesis and no unit
TitleEdits ==
  { [name |-> <<"C"," ","(","n",")">>, unit |-> None, esg |-> None, scope |-> None] }

\* files the user may pick in the import dialog, and the name of a file
JsonFiles == {JsonUnparsable, JsonValue(JNull), JsonArray(DataMetrics)}
XMindArchives == {Archive(None, FALSE), Archive(None, TRUE), Archive(Some(DocLinked), FALSE)}
FileNames == {<<"I">>}

\* the first root of the forest of the store
FirstRoot == {treeData[i].id : i \in {j \in 1..Len(treeData) : j = 1}}

\* ids of the tabs, and the tabs the user picks: the first preset tab and
\* every custom tab
TabIds == {tabs[i].id : i \in 1..Len(tabs)}
TabInputs == {ID_consolidated} \cup {tabs[i].id : i \in {j \in 1..Len(tabs) : ~tabs[j].isPreset}}

\* what the user may type as a tab name and into the search box
TabNames == {<<"R">>}
SearchTerms == {<<>>, <<"$">>}

\* what localStorage may hold at the start.  EmptyObject is the item {} of a
\* tab array: every field of the tab is undefined, which the tab record
\* shows as None, FALSE and the empty list
EmptyObject ==
  [id |-> None, name |-> None, isPreset |-> FALSE, presetType |-> None, data |-> None,
   expandedNodes |-> <<>>, searchTerm |-> <<>>, showESGOnly |-> FALSE]

SavedFinancial == JTab(serializeTabState(createPresetTab(ID_financial)))

StoredBlobs ==
  { None,
    Some(TextEmpty),
    Some(TextUnparsable),
    Some(TextJson(JNull)),
    Some(TextJson(JNumber)),
    Some(TextJson(JArray(<<SavedFinancial>>))),
    Some(TextJson(JObject(None, Some(ID_financial)))),
    Some(TextJson(JObject(Some(JString), Some(ID_financial)))),
    Some(TextJson(JObject(Some(JArray(<<SavedFinancial, JNull>>)), Some(ID_financial)))),
    Some(TextJson(JObject(Some(JArray(<<JTab(EmptyObject)>>)), None))),
    saveTabs(DefaultTabs.tabs, ID_financial) }

LabelInputs == {None, Some(<<"D">>)}
MarkerInputs == {<<"s","t","a","r">>}
NewLabelInputs == {<<"U">>}

\* nodes of the subtree of the first node with the id, 0 when there is none
SubtreeSize(nodes, nodeId) ==
  LET n == findNodeById(nodeId, nodes)
  IN IF n = None THEN 0 ELSE NodeCount(<<n[1]>>)

(***************************************************************************)
(* State machine                                                           *)
(***************************************************************************)
Init ==
  /\ treeData = <<>>
  /\ moveError = None
  /\ timers = 0
  /\ linkSourceId = None
  /\ nextId = 1
  /\ nextLinkId = 1
  /\ last = [op |-> "init"]
  /\ tabs = <<>>
  /\ activeTabId = ID_consolidated
  /\ storage = None
  /\ nextTabId = 1
  /\ importError = None
  /\ download = None
  /\ isLocked = TRUE
  /\ selectedNodeId = None
  /\ contextMenu = None
  /\ draggedNodeId = None

\* the watcher of store.treeData in KPITree.vue hands the forest to the
\* active tab with updateTabData, and the watcher of the tab list saves it
SyncTabData ==
  /\ tabs' = IF activeTab(tabs, activeTabId) # None
               THEN updateTabData(tabs, activeTabId, treeData') ELSE tabs
  /\ storage' = IF activeTab(tabs, activeTabId) # None THEN saveTabs(tabs', activeTabId) ELSE storage
  /\ UNCHANGED <<activeTabId, nextTabId, importError, download>>

\* the same after a function of the store that leaves the refs of the view
\* alone
SyncActiveTab ==
  /\ SyncTabData
  /\ UNCHANGED viewVars

closeContextMenu == contextMenu' = None

initStore(initialData) ==
  /\ treeData' = initialData
  /\ last' = [op |-> "initStore"]
  /\ UNCHANGED <<moveError, timers, linkSourceId, nextId, nextLinkId>>
  /\ SyncActiveTab

\* handleImportXMind: the imported forest becomes a new tab, the new tab
\* becomes the active tab and the watcher of the active tab loads it into
\* the store with initStore
ImportXMind(sheets) ==
  /\ treeData' = importFromXMind(sheets)
  /\ last' = [op |-> "importXMind", sheets |-> sheets]
  /\ UNCHANGED <<moveError, timers, linkSourceId, nextId, nextLinkId>>
  /\ SyncActiveTab

MoveNode(nodeId, targetParentId) ==
  \E r \in {moveNode(treeData, nodeId, targetParentId)} :
     /\ treeData' = r.tree
     /\ moveError' = IF r.failed THEN r.ret.reason ELSE moveError
     /\ timers' = IF r.failed THEN timers + 1 ELSE timers
     /\ last' = [op |-> "moveNode", nodeId |-> nodeId, targetParentId |-> targetParentId, ret |-> r.ret]
     /\ UNCHANGED <<linkSourceId, nextId, nextLinkId>>
     /\ SyncActiveTab

\* the callback of setTimeout(..., 5000) of a failed moveNode.  `timers`
\* counts the callbacks that are pending; all have the same delay, so they
\* run in the order in which the failures set them
MoveErrorTimeout ==
  /\ timers > 0
  /\ timers' = timers - 1
  /\ moveError' = None
  /\ last' = [op |-> "timeout"]
  /\ UNCHANGED <<treeData, linkSourceId, nextId, nextLinkId>>
  /\ SyncActiveTab

clearMoveError ==
  /\ moveError # None
  /\ moveError' = None
  /\ last' = [op |-> "clearMoveError"]
  /\ UNCHANGED <<treeData, timers, linkSourceId, nextId, nextLinkId>>
  /\ SyncActiveTab

AddNode(parentId, nodeData) ==
  /\ nextId <= MaxFresh
  /\ treeData' = addNode(treeData, parentId, nodeData, nextId)
  /\ nextId' = nextId + 1
  /\ last' = [op |-> "addNode", parentId |-> parentId, ret |-> generateNodeId(nextId)]
  /\ UNCHANGED <<moveError, timers, linkSourceId, nextLinkId>>
  /\ SyncActiveTab

AddSiblingNode(siblingId, nodeData, position) ==
  /\ nextId <= MaxFresh
  /\ \E r \in {addSiblingNode(treeData, siblingId, nodeData, position, nextId)} :
     /\ treeData' = r.tree
     /\ nextId' = nextId + 1
     /\ last' = [op |-> "addSiblingNode", siblingId |-> siblingId, position |-> position, ret |-> r.ret]
     /\ UNCHANGED <<moveError, timers, linkSourceId, nextLinkId>>
     /\ SyncActiveTab

EditNode(nodeId, nodeData) ==
  /\ treeData' = editNode(treeData, nodeId, nodeData)
  /\ last' = [op |-> "editNode", nodeId |-> nodeId, nodeData |-> nodeData]
  /\ UNCHANGED <<moveError, timers, linkSourceId, nextId, nextLinkId>>
  /\ SyncActiveTab

DeleteNode(nodeId) ==
  /\ treeData' = deleteNode(treeData, nodeId)
  /\ last' = [op |-> "deleteNode"]
  /\ UNCHANGED <<moveError, timers, linkSourceId, nextId, nextLinkId>>
  /\ closeContextMenu
  /\ UNCHANGED <<isLocked, selectedNodeId, draggedNodeId>>
  /\ SyncTabData

DuplicateNode(nodeId) ==
  /\ nextId + SubtreeSize(treeData, nodeId) - 1 <= MaxFresh
  /\ \E r \in {duplicateNode(treeData, nodeId, nextId)} :
     /\ treeData' = r.tree
     /\ nextId' = r.next
     /\ last' = [op |-> "duplicateNode"]
     /\ UNCHANGED <<moveError, timers, linkSourceId, nextLinkId>>
     /\ IF findNodeById(nodeId, treeData) # None THEN closeContextMenu ELSE UNCHANGED contextMenu
     /\ UNCHANGED <<isLocked, selectedNodeId, draggedNodeId>>
     /\ SyncTabData

startLinkMode(sourceId) ==
  /\ linkSourceId' = Some(sourceId)
  /\ last' = [op |-> "startLinkMode"]
  /\ UNCHANGED <<treeData, moveError, timers, nextId, nextLinkId>>
  /\ closeContextMenu
  /\ UNCHANGED <<isLocked, selectedNodeId, draggedNodeId>>
  /\ SyncTabData

cancelLinkMode ==
  /\ linkSourceId # None
  /\ linkSourceId' = None
  /\ last' = [op |-> "cancelLinkMode"]
  /\ UNCHANGED <<treeData, moveError, timers, nextId, nextLinkId>>
  /\ SyncActiveTab

CreateLink(targetId, label) ==
  LET r == createLink(treeData, linkSourceId, targetId, label, nextLinkId)
  IN /\ r.ret => nextLinkId <= MaxLinks
     /\ treeData' = r.tree
     /\ nextLinkId' = IF r.ret THEN nextLinkId + 1 ELSE nextLinkId
     /\ linkSourceId' = None
     /\ last' = [op |-> "createLink", sourceId |-> linkSourceId, targetId |-> targetId, ret |-> r.ret]
     /\ UNCHANGED <<moveError, timers, nextId>>
     /\ SyncActiveTab

DeleteLink(sourceId, targetId) ==
  /\ treeData' = deleteLink(treeData, sourceId, targetId)
  /\ last' = [op |-> "deleteLink"]
  /\ UNCHANGED <<moveError, timers, linkSourceId, nextId, nextLinkId>>
  /\ SyncActiveTab

UpdateLinkLabel(sourceId, targetId, label) ==
  /\ treeData' = updateLinkLabel(treeData, sourceId, targetId, label)
  /\ last' = [op |-> "updateLinkLabel"]
  /\ UNCHANGED <<moveError, timers, linkSourceId, nextId, nextLinkId>>
  /\ SyncActiveTab

ToggleMarker(nodeId, marker) ==
  /\ treeData' = toggleMarker(treeData, nodeId, marker)
  /\ last' = [op |-> "toggleMarker"]
  /\ UNCHANGED <<moveError, timers, linkSourceId, nextId, nextLinkId>>
  /\ SyncActiveTab

\* handleExport with the XMind format: the document that is downloaded
ExportXMind ==
  /\ download' = Some(exportToXMind(treeData))
  /\ last' = [op |-> "exportToXMind"]
  /\ UNCHANGED <<treeData, moveError, timers, linkSourceId, nextId, nextLinkId,
                 tabs, activeTabId, storage, nextTabId, importError>>
  /\ UNCHANGED viewVars

\* the tree handleCreateNew makes; k stands for the time in its root id
newTree(name, k) ==
  << WithChildren(Leaf(S_root_ \o <<Digit[k]>>, name, None, None, None, None), <<>>) >>

\* onMounted of KPITree.vue with the saved text of localStorage
InitMounted(saved) ==
  \E m \in {Mounted(saved)} :
    /\ treeData = m.treeData
    /\ moveError = None
    /\ timers = 0
    /\ linkSourceId = None
    /\ nextId = 1
    /\ nextLinkId = 1
    /\ last = [op |-> "initializeTabs", saved |-> saved]
    /\ tabs = m.tabs
    /\ activeTabId = m.activeTabId
    /\ storage = m.storage
    /\ nextTabId = 1
    /\ importError = None
    /\ download = None
    /\ isLocked = TRUE
    /\ selectedNodeId = None
    /\ contextMenu = None
    /\ draggedNodeId = None

\* the first start: localStorage holds nothing
InitTabs == InitMounted(None)

\* the page is loaded again: the refs start afresh and onMounted restores
\* the tabs from what saveTabs wrote last
Reload ==
  \E m \in {Mounted(storage)} :
    /\ treeData' = m.treeData
    /\ tabs' = m.tabs
    /\ activeTabId' = m.activeTabId
    /\ storage' = m.storage
    /\ moveError' = None
    /\ timers' = 0
    /\ linkSourceId' = None
    /\ importError' = None
    /\ isLocked' = TRUE
    /\ selectedNodeId' = None
    /\ contextMenu' = None
    /\ draggedNodeId' = None
    /\ last' = [op |-> "reload"]
    /\ UNCHANGED <<nextId, nextLinkId, nextTabId, download>>

SetActiveTab(tabId) ==
  /\ TabEffects(setActiveTab(tabs, activeTabId, tabId))
  /\ last' = [op |-> "setActiveTab"]
  /\ UNCHANGED <<moveError, timers, linkSourceId, nextId, nextLinkId, nextTabId,
                 importError, download>>
  /\ UNCHANGED viewVars

\* handleCreateNew of the modal and handleNewTree of the view: a tree of one
\* root with an empty child list becomes a new tab
HandleNewTree(name) ==
  /\ TabEffects(addNewTab(tabs, activeTabId, name, newTree(name, nextTabId), nextTabId))
  /\ nextTabId' = nextTabId + 1
  /\ importError' = None
  /\ last' = [op |-> "addNewTab"]
  /\ UNCHANGED <<moveError, timers, linkSourceId, nextId, nextLinkId, download>>
  /\ UNCHANGED viewVars

DuplicateTab(tabId) ==
  /\ TabEffects(duplicateTab(tabs, activeTabId, tabId, nextTabId))
  /\ nextTabId' = IF TabIndex(tabs, tabId) # 0 THEN nextTabId + 1 ELSE nextTabId
  /\ last' = [op |-> "duplicateTab", tabId |-> tabId]
  /\ UNCHANGED <<moveError, timers, linkSourceId, nextId, nextLinkId, importError, download>>
  /\ UNCHANGED viewVars

CloseTab(tabId) ==
  /\ TabEffects(closeTab(tabs, activeTabId, tabId))
  /\ last' = [op |-> "closeTab", tabId |-> tabId]
  /\ UNCHANGED <<moveError, timers, linkSourceId, nextId, nextLinkId, nextTabId,
                 importError, download>>
  /\ UNCHANGED viewVars

RenameTab(tabId, newName) ==
  /\ TabEffects([tabs |-> renameTab(tabs, tabId, newName), activeTabId |-> activeTabId])
  /\ last' = [op |-> "renameTab", tabId |-> tabId]
  /\ UNCHANGED <<moveError, timers, linkSourceId, nextId, nextLinkId, nextTabId,
                 importError, download>>
  /\ UNCHANGED viewVars

\* toggleNode, setSearchTerm and setShowESGOnly of the view act on the
\* active tab
ToggleNode(id) ==
  /\ LET tab == activeTab(tabs, activeTabId)
     IN TabEffects([tabs |-> IF tab = None THEN tabs
                             ELSE updateTabExpandedNodes(tabs, tab[1].id,
                                    IF id \in tab[1].expandedNodes
                                      THEN tab[1].expandedNodes \ {id}
                                      ELSE tab[1].expandedNodes \cup {id}),
                    activeTabId |-> activeTabId])
  /\ last' = [op |-> "toggleNode"]
  /\ UNCHANGED <<moveError, timers, linkSourceId, nextId, nextLinkId, nextTabId,
                 importError, download>>
  /\ UNCHANGED viewVars

SetSearchTerm(term) ==
  /\ LET tab == activeTab(tabs, activeTabId)
     IN TabEffects([tabs |-> IF tab = None THEN tabs
                             ELSE updateTabSearchTerm(tabs, tab[1].id, term),
                    activeTabId |-> activeTabId])
  /\ last' = [op |-> "setSearchTerm"]
  /\ UNCHANGED <<moveError, timers, linkSourceId, nextId, nextLinkId, nextTabId,
                 importError, download>>
  /\ UNCHANGED viewVars

SetShowESGOnly(show) ==
  /\ LET tab == activeTab(tabs, activeTabId)
     IN TabEffects([tabs |-> IF tab = None THEN tabs
                             ELSE updateTabShowESGOnly(tabs, tab[1].id, show),
                    activeTabId |-> activeTabId])
  /\ last' = [op |-> "setShowESGOnly"]
  /\ UNCHANGED <<moveError, timers, linkSourceId, nextId, nextLinkId, nextTabId,
                 importError, download>>
  /\ UNCHANGED viewVars

\* handleImportJson of the modal and handleImport of the view: the error is
\* cleared, and the file either becomes a new tab or leaves its error
HandleImportJson(name, file) ==
  \E r \in {importFromJson(file)} :
    /\ IF r.ok
         THEN /\ TabEffects(addNewTab(tabs, activeTabId, name, r.data, nextTabId))
              /\ nextTabId' = nextTabId + 1
              /\ importError' = None
         ELSE /\ importError' = Some(r.error)
              /\ UNCHANGED <<treeData, tabs, activeTabId, storage, nextTabId>>
    /\ last' = [op |-> "handleImportJson", file |-> file]
    /\ UNCHANGED <<moveError, timers, linkSourceId, nextId, nextLinkId, download>>
    /\ UNCHANGED viewVars

HandleImportXMind(name, file) ==
  \E r \in {importFromXMindFile(file)} :
    /\ IF r.ok
         THEN /\ TabEffects(addNewTab(tabs, activeTabId, name, r.data, nextTabId))
              /\ nextTabId' = nextTabId + 1
              /\ importError' = None
         ELSE /\ importError' = Some(r.error)
              /\ UNCHANGED <<treeData, tabs, activeTabId, storage, nextTabId>>
    /\ last' = [op |-> "handleImportXMind", file |-> file]
    /\ UNCHANGED <<moveError, timers, linkSourceId, nextId, nextLinkId, download>>
    /\ UNCHANGED viewVars

(***************************************************************************)
(* Handlers of the view: lock, node clicks, context menu, drag and drop,   *)
(* keyboard shortcuts, relationship panel                                  *)
(***************************************************************************)
S_New_Node == <<"N","e","w"," ","N","o","d","e">>

\* { name: 'New Node' }
NewNodeData == [name |-> S_New_Node, unit |-> None, esg |-> None, scope |-> None]

\* the computed currentExpandedNodes of KPITree.vue
currentExpandedNodes(ts, active) ==
  IF activeTab(ts, active) # None THEN activeTab(ts, active)[1].expandedNodes ELSE {}

\* the tab list toggleNode(id) of KPITree.vue leaves
toggleNode(ts, active, id) ==
  LET tab == activeTab(ts, active)
  IN IF tab = None THEN ts
     ELSE updateTabExpandedNodes(ts, tab[1].id,
            IF id \in tab[1].expandedNodes
              THEN tab[1].expandedNodes \ {id}
              ELSE tab[1].expandedNodes \cup {id})

\* the ids of the nodes that are shown, in tree order: the children of a
\* node are shown when the node is expanded
RECURSIVE getVisibleNodeIds(_, _)
getVisibleNodeIds(nodes, expanded) ==
  IF nodes = <<>> THEN <<>>
  ELSE LET node == Head(nodes)
       IN <<node.id>>
          \o (IF node.children # None /\ node.id \in expanded
                THEN getVisibleNodeIds(node.children[1], expanded) ELSE <<>>)
          \o getVisibleNodeIds(Tail(nodes), expanded)

\* Array.prototype.indexOf, counted from 0, -1 when the value is absent
indexOf(s, x) ==
  LET hits == {i \in 1..Len(s) : s[i] = x}
  IN IF hits = {} THEN -1 ELSE MinOf(hits) - 1

\* s[i] ?? null with i counted from 0
ElementAt(s, i) == IF i + 1 \in 1..Len(s) THEN Some(s[i + 1]) ELSE None

\* node.children && node.children.length > 0
hasChildren(node) == node.children # None /\ node.children[1] # <<>>

\* handleKeyDown for a key pressed outside a text field.  `acted` is false
\* when the handler returns before it changes anything; `toggle` is the id
\* handed to onToggle; `closeMenu` says that closeContextMenu ran, in
\* deleteNode or in openEditNodeModal, which the handler calls 50 ms after it
\* has added a node
handleKeyDown(nodes, selected, expanded, locked, k, key) ==
  LET same == [acted |-> FALSE, tree |-> nodes, selected |-> selected, toggle |-> None,
               next |-> k, closeMenu |-> FALSE]
      visibleIds == getVisibleNodeIds(nodes, expanded)
  IN IF selected = None
       THEN IF key \in {"ArrowDown", "ArrowUp"} /\ visibleIds # <<>>
              THEN [same EXCEPT !.acted = TRUE, !.selected = Some(visibleIds[1])]
              ELSE same
     ELSE IF findNodeById(selected[1], nodes) = None THEN same
     ELSE
       LET selectedNode == findNodeById(selected[1], nodes)[1]
           currentIndex == indexOf(visibleIds, selected[1])
       IN CASE key = "ArrowDown" ->
                 IF currentIndex < Len(visibleIds) - 1
                   THEN [same EXCEPT !.acted = TRUE, !.selected = ElementAt(visibleIds, currentIndex + 1)]
                   ELSE same
            [] key = "ArrowUp" ->
                 IF currentIndex > 0
                   THEN [same EXCEPT !.acted = TRUE, !.selected = ElementAt(visibleIds, currentIndex - 1)]
                   ELSE same
            [] key = "ArrowRight" ->
                 IF ~hasChildren(selectedNode) THEN same
                 ELSE IF selected[1] \notin expanded
                   THEN [same EXCEPT !.acted = TRUE, !.toggle = selected]
                 ELSE [same EXCEPT !.acted = TRUE, !.selected = Some(selectedNode.children[1][1].id)]
            [] key = "ArrowLeft" ->
                 IF selected[1] \in expanded
                   THEN [same EXCEPT !.acted = TRUE, !.toggle = selected]
                 ELSE LET parent == findParentOfNode(selected[1], nodes, None)
                      IN IF parent # None
                           THEN [same EXCEPT !.acted = TRUE, !.selected = Some(parent[1].id)]
                           ELSE same
            [] key \in {"Enter", "Shift+Enter"} ->
                 IF locked THEN same
                 ELSE LET r == addSiblingNode(nodes, selected[1], NewNodeData,
                                              IF key = "Enter" THEN "after" ELSE "before", k)
                      IN [acted |-> TRUE, tree |-> r.tree,
                          selected |-> IF r.ret # None THEN r.ret ELSE selected,
                          toggle |-> None, next |-> k + 1, closeMenu |-> r.ret # None]
            [] key = "Tab" ->
                 IF locked THEN same
                 ELSE [acted |-> TRUE, tree |-> addNode(nodes, selected[1], NewNodeData, k),
                       selected |-> Some(generateNodeId(k)),
                       toggle |-> IF selected[1] \notin expanded THEN selected ELSE None,
                       next |-> k + 1, closeMenu |-> TRUE]
            [] key = "Delete" ->
                 IF locked THEN same
                 ELSE [acted |-> TRUE, tree |-> deleteNode(nodes, selected[1]),
                       selected |-> IF currentIndex < Len(visibleIds) - 1
                                      THEN ElementAt(visibleIds, currentIndex + 1)
                                    ELSE IF currentIndex > 0
                                      THEN ElementAt(visibleIds, currentIndex - 1)
                                    ELSE None,
                       toggle |-> None, next |-> k, closeMenu |-> TRUE]
            [] key = "Escape" -> [same EXCEPT !.acted = TRUE, !.selected = None]
            [] key = " " ->
                 IF hasChildren(selectedNode)
                   THEN [same EXCEPT !.acted = TRUE, !.toggle = selected]
                   ELSE same
            [] OTHER -> same

\* the keys that move the selection or fold a node; the other keys the
\* handler has a case for edit the forest: Enter, Shift+Enter, Tab and
\* Delete, Backspace with the meta key being Delete
SelectionKeys == {"ArrowDown", "ArrowUp", "ArrowRight", "ArrowLeft", "Escape", " "}

\* the nodes that are rendered, which are the ones a pointer can hit
VisibleIds == {id \in IdsOf(treeData) :
                 indexOf(getVisibleNodeIds(treeData, currentExpandedNodes(tabs, activeTabId)), id) >= 0}

\* the watchers of KPITree.vue after a handler of the view that leaves the
\* forest td and the tab list ts: the forest goes to the active tab, and a
\* changed tab list is saved
ViewEffects(td, ts) ==
  \E final \in {IF activeTab(ts, activeTabId) # None
                  THEN updateTabData(ts, activeTabId, td) ELSE ts} :
    /\ treeData' = td
    /\ tabs' = final
    /\ storage' = IF final # tabs THEN saveTabs(final, activeTabId) ELSE storage
    /\ UNCHANGED <<activeTabId, nextTabId, importError, download>>

\* the lock button; its click reaches the click listener of the context
\* menu, which closes the menu.  No click happens while a node is dragged
ToggleLock ==
  /\ draggedNodeId = None
  /\ isLocked' = ~isLocked
  /\ contextMenu' = None
  /\ last' = [op |-> "pointer"]
  /\ UNCHANGED <<treeData, moveError, timers, linkSourceId, nextId, nextLinkId,
                 tabs, activeTabId, storage, nextTabId, importError, download,
                 selectedNodeId, draggedNodeId>>

\* handleClick of a rendered node; label is what the prompt returns in link
\* mode.  The click reaches the click listener of the context menu too
HandleClick(id, label) ==
  /\ draggedNodeId = None
  /\ IF linkSourceId # None
       THEN \E r \in {createLink(treeData, linkSourceId, id, label, nextLinkId)} :
              /\ r.ret => nextLinkId <= MaxLinks
              /\ nextLinkId' = IF r.ret THEN nextLinkId + 1 ELSE nextLinkId
              /\ linkSourceId' = None
              /\ UNCHANGED selectedNodeId
              /\ ViewEffects(r.tree, tabs)
       ELSE /\ selectedNodeId' = Some(id)
            /\ UNCHANGED <<linkSourceId, nextLinkId>>
            /\ ViewEffects(treeData, IF hasChildren(findNodeById(id, treeData)[1])
                                       THEN toggleNode(tabs, activeTabId, id) ELSE tabs)
  /\ contextMenu' = None
  /\ last' = [op |-> "pointer"]
  /\ UNCHANGED <<moveError, timers, nextId, isLocked, draggedNodeId>>

\* handleContextMenu of a rendered node
HandleContextMenu(id) ==
  /\ draggedNodeId = None
  /\ ~isLocked
  /\ contextMenu' = Some(id)
  /\ last' = [op |-> "pointer"]
  /\ UNCHANGED <<treeData, moveError, timers, linkSourceId, nextId, nextLinkId,
                 tabs, activeTabId, storage, nextTabId, importError, download,
                 isLocked, selectedNodeId, draggedNodeId>>

\* the entries Delete (confirmed) and Create Link of the open
\* context menu, which are clicked
MenuDelete == draggedNodeId = None /\ contextMenu # None /\ DeleteNode(contextMenu[1])
MenuCreateLink == draggedNodeId = None /\ contextMenu # None /\ startLinkMode(contextMenu[1])

\* handleDragStart of a rendered node: the id goes to the dataTransfer
HandleDragStart(id) ==
  /\ draggedNodeId = None
  /\ ~isLocked
  /\ draggedNodeId' = Some(id)
  /\ last' = [op |-> "pointer"]
  /\ UNCHANGED <<treeData, moveError, timers, linkSourceId, nextId, nextLinkId,
                 tabs, activeTabId, storage, nextTabId, importError, download,
                 isLocked, selectedNodeId, contextMenu>>

\* handleDrop on a rendered node, with the id handleDragStart stored; a drop
\* on the dragged node itself moves nothing, as a drag that is given up
HandleDrop(id) ==
  /\ draggedNodeId # None
  /\ \E r \in {IF draggedNodeId[1] # id
                 THEN moveNode(treeData, draggedNodeId[1], Some(id))
                 ELSE [ret |-> Valid, tree |-> treeData, failed |-> FALSE]} :
       /\ moveError' = IF r.failed THEN r.ret.reason ELSE moveError
       /\ timers' = IF r.failed THEN timers + 1 ELSE timers
       /\ ViewEffects(r.tree, tabs)
  /\ draggedNodeId' = None
  /\ last' = [op |-> "pointer"]
  /\ UNCHANGED <<linkSourceId, nextId, nextLinkId, isLocked, selectedNodeId, contextMenu>>

\* the keydown listener of the window; the browser sends no key event
\* while a node is dragged
HandleKeyDown(key) ==
  /\ draggedNodeId = None
  /\ \E r \in {handleKeyDown(treeData, selectedNodeId, currentExpandedNodes(tabs, activeTabId),
                          isLocked, nextId, key)} :
    /\ r.acted
    /\ r.next <= MaxFresh + 1
    /\ selectedNodeId' = r.selected
    /\ nextId' = r.next
    /\ contextMenu' = IF r.closeMenu THEN None ELSE contextMenu
    /\ ViewEffects(r.tree, IF r.toggle # None THEN toggleNode(tabs, activeTabId, r.toggle[1]) ELSE tabs)
    /\ last' = [op |-> "keyDown", key |-> key]
    /\ UNCHANGED <<moveError, timers, linkSourceId, nextLinkId, isLocked, draggedNodeId>>

\* handleDeleteLink of the relationship panel, confirmed, on the i-th entry
\* the panel lists; the handler stops the click
PanelDeleteLink(i) ==
  \E view \in {getAllRelationships(treeData)} :
    /\ draggedNodeId = None
    /\ i \in 1..Len(view)
    /\ DeleteLink(view[i].source.id, view[i].target.id)

\* the page with the saved tab 'financial' active
InitView == InitMounted(saveTabs(DefaultTabs.tabs, ID_financial))

\* selecting nodes with the pointer and the keyboard shortcuts, locked and
\* unlocked
NextKeys ==
  \/ ToggleLock
  \/ \E id \in VisibleIds : HandleClick(id, None)
  \/ \E key \in SelectionKeys \cup {"Delete"} : HandleKeyDown(key)

SpecKeys == InitView /\ [][NextKeys]_vars

\* the first two rendered nodes, the ones the pointer goes to in NextLock
PointerIds ==
  LET v == getVisibleNodeIds(treeData, currentExpandedNodes(tabs, activeTabId))
  IN {v[i] : i \in 1..MinOf({Len(v), 2})}

\* the lock and the handlers that edit the forest: context menu, link mode,
\* drag and drop, keyboard shortcuts, relationship panel, on an imported
\* tree
NextLock ==
  \/ \E n \in FileNames : /\ draggedNodeId = None
                            /\ HandleImportXMind(n, Archive(Some(DocDashed), FALSE))
                            /\ nextTabId' <= MaxTabs + 1
  \/ ToggleLock
  \/ \E id \in PointerIds : HandleClick(id, None)
  \/ \E id \in PointerIds : HandleContextMenu(id)
  \/ MenuDelete
  \/ MenuCreateLink
  \/ \E id \in PointerIds : HandleDragStart(id)
  \/ \E id \in PointerIds : HandleDrop(id) /\ timers' <= MaxTimers
  \/ HandleKeyDown("Delete")
  \/ \E i \in {1} : PanelDeleteLink(i)

SpecLock == InitTabs /\ [][NextLock]_vars

\* moving nodes, and the move error with its timeout
NextMove ==
  \/ \E d \in Datasets : initStore(d)
  \/ \E n \in IdInputs, t \in TargetInputs : MoveNode(n, t) /\ timers' <= MaxTimers
  \/ MoveErrorTimeout
  \/ clearMoveError

SpecMove == Init /\ [][NextMove]_vars

\* the move error and its timeouts: the moves that validateMove rejects, with
\* failures that follow one another within the delay
NextError ==
  \/ \E d \in Datasets : initStore(d)
  \/ \E n \in IdInputs, t \in TargetInputs :
       ~validateMove(treeData, n, t).valid /\ MoveNode(n, t) /\ timers' <= MaxPending
  \/ MoveErrorTimeout
  \/ clearMoveError

SpecError == Init /\ [][NextError]_vars

\* adding, deleting and duplicating nodes
NextTree ==
  \/ \E d \in Datasets : initStore(d)
  \/ \E p \in IdInputs, d \in NewNodeDatas : AddNode(p, d)
  \/ \E s \in IdInputs, d \in NewNodeDatas, pos \in {"before", "after"} : AddSiblingNode(s, d, pos)
  \/ \E n \in IdInputs : DeleteNode(n)
  \/ \E n \in IdInputs : DuplicateNode(n)

SpecTree == Init /\ [][NextTree]_vars

\* the operations on relationships
NextLink ==
  \/ \E d \in Datasets : initStore(d)
  \/ \E doc \in XMindDocs : ImportXMind(doc)
  \/ \E s \in IdInputs : startLinkMode(s)
  \/ cancelLinkMode
  \/ \E t \in IdInputs, l \in LabelInputs : CreateLink(t, l)
  \/ \E s \in IdInputs, t \in IdInputs : DeleteLink(s, t)

SpecLink == Init /\ [][NextLink]_vars

\* link mode: choosing a source and creating links
NextCreate ==
  \/ \E d \in Datasets : initStore(d)
  \/ \E doc \in XMindDocs : ImportXMind(doc)
  \/ \E s \in IdInputs : startLinkMode(s)
  \/ cancelLinkMode
  \/ \E t \in IdInputs, l \in LabelInputs : CreateLink(t, l)

SpecCreate == Init /\ [][NextCreate]_vars

\* links between nodes that are deleted afterwards
NextPrune ==
  \/ \E doc \in XMindDocs : ImportXMind(doc)
  \/ \E s \in IdInputs : startLinkMode(s)
  \/ \E t \in IdInputs, l \in LabelInputs : CreateLink(t, l)
  \/ \E n \in IdInputs : DeleteNode(n)

SpecPrune == Init /\ [][NextPrune]_vars

\* duplicating nodes that carry relationship records and markers
NextClone ==
  \/ \E d \in Datasets : initStore(d)
  \/ \E doc \in XMindDocs : ImportXMind(doc)
  \/ \E n \in IdInputs, m \in MarkerInputs : ToggleMarker(n, m)
  \/ \E n \in IdInputs : DuplicateNode(n)

SpecClone == Init /\ [][NextClone]_vars

\* editing fields, markers and labels in place
NextEdit ==
  \/ \E d \in Datasets : initStore(d)
  \/ \E doc \in XMindDocs : ImportXMind(doc)
  \/ \E n \in IdInputs, d \in EditDatas : EditNode(n, d)
  \/ \E s \in IdInputs, t \in IdInputs, l \in NewLabelInputs : UpdateLinkLabel(s, t, l)
  \/ \E n \in IdInputs, m \in MarkerInputs : ToggleMarker(n, m)

SpecEdit == Init /\ [][NextEdit]_vars

\* number of relationship records of a forest
RecordCount(nodes) == Len(RelRecords(Flatten(nodes)))

\* XMind export and import: data sets and files, names ending in a
\* parenthesis, the export, and the import of the exported document
NextXMind ==
  \/ \E d \in Datasets : initStore(d)
  \/ \E f \in XMindFiles : ImportXMind(f)
  \/ \E n \in IdsOf(treeData), d \in TitleEdits : EditNode(n, d)
  \/ ExportXMind
  \/ download # None /\ ImportXMind(download[1]) /\ RecordCount(treeData') <= MaxRecords

SpecXMind == Init /\ [][NextXMind]_vars

\* importing files into new tabs, next to edits of the store and changes of
\* the active tab
NextImport ==
  \/ \E n \in FileNames, f \in JsonFiles : HandleImportJson(n, f) /\ nextTabId' <= MaxTabs + 1
  \/ \E n \in FileNames, f \in XMindArchives : HandleImportXMind(n, f) /\ nextTabId' <= MaxTabs + 1
  \/ \E t \in TabInputs : SetActiveTab(t)
  \/ \E p \in FirstRoot, d \in NewNodeDatas : AddNode(p, d)

SpecImport == InitTabs /\ [][NextImport]_vars

\* number of UI fields of the tabs that differ from those of a new tab
TouchedFields(ts) ==
  Cardinality({i \in 1..Len(ts) : ts[i].expandedNodes # {}})
    + Cardinality({i \in 1..Len(ts) : ts[i].searchTerm # <<>>})
    + Cardinality({i \in 1..Len(ts) : ts[i].showESGOnly})

\* the tab manager after the first start: new, duplicated, closed and
\* renamed tabs, changes of the active tab and of its UI state
NextTabs ==
  \/ \E n \in TabNames : HandleNewTree(n) /\ nextTabId' <= MaxTabs + 1
  \/ \E t \in TabInputs : DuplicateTab(t) /\ nextTabId' <= MaxTabs + 1
  \/ \E t \in TabInputs : CloseTab(t)
  \/ \E t \in TabInputs, n \in TabNames : RenameTab(t, n)
  \/ \E t \in TabInputs \cup {ID_ghost} : SetActiveTab(t)
  \/ \E id \in FirstRoot : ToggleNode(id) /\ TouchedFields(tabs') <= MaxTouched
  \/ \E term \in SearchTerms : SetSearchTerm(term) /\ TouchedFields(tabs') <= MaxTouched
  \/ \E show \in BOOLEAN : SetShowESGOnly(show) /\ TouchedFields(tabs') <= MaxTouched

SpecTabs == InitTabs /\ [][NextTabs]_vars

\* copies of tabs and the saved tab state: the UI state of the active tab,
\* edits of the store, duplicated tabs, and loading the page again
NextCopy ==
  \/ \E t \in TabInputs : DuplicateTab(t) /\ nextTabId' <= MaxTabs + 1
  \/ \E t \in TabInputs : SetActiveTab(t)
  \/ \E id \in FirstRoot : ToggleNode(id) /\ TouchedFields(tabs') <= MaxTouched
  \/ \E term \in SearchTerms : SetSearchTerm(term) /\ TouchedFields(tabs') <= MaxTouched
  \/ \E show \in BOOLEAN : SetShowESGOnly(show) /\ TouchedFields(tabs') <= MaxTouched
  \/ \E n \in FirstRoot, d \in EditDatas : EditNode(n, d)
  \/ Reload

SpecCopy == InitTabs /\ [][NextCopy]_vars

\* edits of the store between tab switches, duplications and closes
NextIsolate ==
  \/ \E t \in TabInputs : DuplicateTab(t) /\ nextTabId' <= MaxTabs + 1
  \/ \E t \in TabInputs : CloseTab(t)
  \/ \E t \in TabInputs \cup {ID_financial} : SetActiveTab(t)
  \/ \E n \in FirstRoot, d \in EditDatas : EditNode(n, d)
  \/ \E n \in FirstRoot : DeleteNode(n)

SpecIsolate == InitTabs /\ [][NextIsolate]_vars

\* the start with each kind of saved text, followed by changes of the active
\* tab and of its UI state and by loading the page again
InitRestore == \E saved \in StoredBlobs : InitMounted(saved)

NextRestore ==
  \/ \E t \in TabIds \cap PresetViewType : SetActiveTab(t)
  \/ \E id \in FirstRoot : ToggleNode(id) /\ TouchedFields(tabs') <= MaxTouched
  \/ \E term \in SearchTerms : SetSearchTerm(term) /\ TouchedFields(tabs') <= MaxTouched
  \/ \E show \in BOOLEAN : SetShowESGOnly(show) /\ TouchedFields(tabs') <= MaxTouched
  \/ Reload

SpecRestore == InitRestore /\ [][NextRestore]_vars

(***************************************************************************)
(* Properties                                                              *)
(***************************************************************************)
DistinctIds(nodes) ==
  LET flat == Flatten(nodes)
  IN Cardinality({flat[i].id : i \in 1..Len(flat)}) = Len(flat)

\* ids of the proper descendants of the nodes that carry the id
DescendantIds(nodes, nodeId) ==
  LET flat == Flatten(nodes)
  IN UNION {IdsOf(Kids(flat[i])) : i \in {j \in 1..Len(flat) : flat[j].id = nodeId}}

\* every list of siblings of the forest: the top level and each children list
SiblingLists(nodes) ==
  LET flat == Flatten(nodes)
  IN {nodes} \cup {Kids(flat[i]) : i \in 1..Len(flat)}

\* the category validateMove resolves for a target
TargetCategory(nodes, targetParentId) ==
  IF IsRootTarget(targetParentId) THEN "root"
  ELSE inferCategory(findNodeById(targetParentId[1], nodes)[1])

\* C1: no two nodes of the forest, at any depth, share an id
C1_IdsGloballyUnique == DistinctIds(treeData)

\* C2: after moveNode(node, target) on a pair that validateMove accepts,
\* findParentOfNode(node) is the target (null for a root-level target) and
\* the forest has as many nodes as before
C2_MoveReparents ==
  [][(last'.op = "moveNode" /\ validateMove(treeData, last'.nodeId, last'.targetParentId).valid) =>
       /\ LET p == findParentOfNode(last'.nodeId, treeData', None)
          IN IF IsRootTarget(last'.targetParentId) THEN p = None
             ELSE p # None /\ p[1].id = last'.targetParentId[1]
       /\ NodeCount(treeData') = NodeCount(treeData)]_vars

\* C3: validateMove(n, d) rejects for every node n and every descendant d of
\* n at any depth, and no node has a descendant that carries its own id
C3_DescendantMoveRejected ==
  /\ \A n \in IdsOf(treeData) : \A d \in DescendantIds(treeData, n) :
        ~validateMove(treeData, n, Some(d)).valid
  /\ \A n \in IdsOf(treeData) : n \notin DescendantIds(treeData, n)

\* a failed move into a descendant two levels down has just been recorded
C3_Witness ==
  /\ last.op = "moveNode"
  /\ last.ret = Invalid(<<"Cannot move a node into its own descendant">>)
  /\ \E n \in IdsOf(treeData) : \E c \in DescendantIds(treeData, n) : DescendantIds(treeData, c) # {}

\* C4: a moveNode that validateMove rejects returns that failure with its
\* reason, sets moveError to the reason and leaves the forest as it was
C4_RejectedMoveChangesNothing ==
  [][(last'.op = "moveNode" /\ ~validateMove(treeData, last'.nodeId, last'.targetParentId).valid) =>
       /\ last'.ret = validateMove(treeData, last'.nodeId, last'.targetParentId)
       /\ last'.ret.reason # None
       /\ moveError' = last'.ret.reason
       /\ treeData' = treeData]_vars

C4_Witness ==
  /\ last.op = "moveNode"
  /\ ~last.ret.valid
  /\ moveError = last.ret.reason
  /\ treeData # <<>>

\* C5: moveNode of a node of the forest to a target that is neither null nor
\* the root sentinel and matches no node leaves the forest as it was
C5_UnknownTargetNoOp ==
  [][(/\ last'.op = "moveNode"
      /\ last'.nodeId \in IdsOf(treeData)
      /\ ~IsRootTarget(last'.targetParentId)
      /\ findNodeById(last'.targetParentId[1], treeData) = None) => treeData' = treeData]_vars

\* C6: for an existing node n and a target t (an existing node, null or the
\* root sentinel) that is neither n nor a descendant of n, validateMove
\* accepts exactly when the category of n is not root and the category of t
\* is in VALID_PARENT_CATEGORIES of the category of n; production under
\* revenue is accepted, production under cost is rejected with a reason that
\* names both categories
C6_MoveAcceptedIffLegalParent ==
  \A n \in IdsOf(treeData) :
    \A t \in {None, Some(S_root_sentinel)} \cup {Some(id) : id \in IdsOf(treeData)} :
      (t # Some(n) /\ (IsRootTarget(t) \/ t[1] \notin DescendantIds(treeData, n))) =>
        LET v == validateMove(treeData, n, t)
            sc == inferCategory(findNodeById(n, treeData)[1])
            tc == TargetCategory(treeData, t)
        IN /\ v.valid <=> (sc # "root" /\ tc \in VALID_PARENT_CATEGORIES[sc])
           /\ (sc = "production" /\ tc = "revenue") => v.valid
           /\ (sc = "production" /\ tc = "cost") =>
                v = Invalid(<<"production", " items cannot be moved under ", "cost", " items.">>)

\* a production node was just refused under a cost node
C6_Witness ==
  /\ last.op = "moveNode"
  /\ last.ret = Invalid(<<"production", " items cannot be moved under ", "cost", " items.">>)
  /\ \E n, t \in IdsOf(treeData) :
       /\ inferCategory(findNodeById(n, treeData)[1]) = "production"
       /\ inferCategory(findNodeById(t, treeData)[1]) = "revenue"
       /\ validateMove(treeData, n, Some(t)).valid

\* node for node: different ids, equal esg, scope and unit, equal child counts
RECURSIVE Corresponds(_, _)
Corresponds(orig, clone) ==
  /\ orig.id # clone.id
  /\ orig.esg = clone.esg /\ orig.scope = clone.scope /\ orig.unit = clone.unit
  /\ Len(Kids(orig)) = Len(Kids(clone))
  /\ \A i \in 1..Len(Kids(orig)) :
       i <= Len(Kids(clone)) => Corresponds(Kids(orig)[i], Kids(clone)[i])

\* C7: duplicateNode(n) puts right after n, among the siblings of n, a clone
\* of the same shape and the same esg, scope and unit values whose ids all
\* differ from the ids of the corresponding original nodes
C7_DuplicateGivesFreshClone ==
  [][\A n \in IdsOf(treeData) :
       DuplicateNode(n) =>
         \E L \in SiblingLists(treeData') : \E i \in 1..(Len(L) - 1) :
            /\ L[i].id = n
            /\ Corresponds(findNodeById(n, treeData)[1], L[i + 1])]_vars

\* C8: in a forest of distinct ids deleteNode(n) removes n and its subtree
\* and nothing else
C8_DeleteRemovesExactlySubtree ==
  [][(last'.op = "deleteNode" /\ DistinctIds(treeData)) =>
       \A n \in IdsOf(treeData) :
         DeleteNode(n) =>
           LET sub == IdsOf(<<findNodeById(n, treeData)[1]>>)
           IN /\ \A id \in sub : findNodeById(id, treeData') = None
              /\ \A id \in IdsOf(treeData) \ sub : findNodeById(id, treeData') # None
              /\ NodeCount(treeData') = NodeCount(treeData) - Cardinality(sub)]_vars

\* a nested node with a child was deleted from the metrics dataset
C8_Witness ==
  /\ last.op = "deleteNode"
  /\ DistinctIds(treeData)
  /\ IdsOf(treeData) = {ID_m1, ID_x1}
  /\ Len(treeData) = 2

\* an entry of the all-relationships view joins the two ids, either way round
Connects(entry, s, t) ==
  \/ entry.source.id = s /\ entry.target.id = t
  \/ entry.source.id = t /\ entry.target.id = s

\* C9: once deleteLink(s, t) has removed a record, getAllRelationships has no
\* entry that connects s and t in either direction
C9_DeletedLinkNotVisible ==
  [][\A s, t \in IdsOf(treeData) :
       (DeleteLink(s, t) /\ HasRelTo(findNodeById(s, treeData)[1], t)) =>
         LET view == getAllRelationships(treeData')
         IN \A i \in 1..Len(view) : ~Connects(view[i], s, t)]_vars

\* C10: after a successful createLink from A to B, the relationship list of
\* B holds a record whose targetId is A
C10_ReverseEdgeStored ==
  [][\A t \in IdsOf(treeData), l \in LabelInputs :
       (CreateLink(t, l) /\ last'.ret) =>
         HasRelTo(findNodeById(t, treeData')[1], linkSourceId[1])]_vars

\* the entries of the all-relationships view that join the two ids
EntriesBetween(nodes, s, t) ==
  LET view == getAllRelationships(nodes)
  IN SelectSeq(view, LAMBDA e : Connects(e, s, t))

\* C11: createLink from A to B with label L, for two distinct nodes of the
\* forest with no relationship record between them in either direction,
\* makes getAllRelationships hold exactly one entry for the pair, namely
\* source A, target B, label L
C11_OneEntryPerNewLink ==
  [][\A t \in IdsOf(treeData), l \in LabelInputs :
       (/\ CreateLink(t, l)
        /\ linkSourceId # None /\ linkSourceId # Some(t)
        /\ findNodeById(linkSourceId[1], treeData) # None
        /\ ~HasRelTo(findNodeById(linkSourceId[1], treeData)[1], t)
        /\ ~HasRelTo(findNodeById(t, treeData)[1], linkSourceId[1])) =>
         LET e == EntriesBetween(treeData', linkSourceId[1], t)
         IN /\ Len(e) = 1
            /\ e[1].source.id = linkSourceId[1]
            /\ e[1].target.id = t
            /\ e[1].label = l]_vars

\* the records appended to a relationship list
AddedRecords(old, new) == SubSeq(new, Len(old) + 1, Len(new))

\* C12: createLink returns false and leaves the forest as it was when no
\* link source is active, when the target is the link source, when the link
\* source is not in the forest or when the source holds a record with that
\* targetId; no record it appends targets its own node or repeats a targetId
\* of the node's list
C12_CreateLinkRejects ==
  [][last'.op = "createLink" =>
       LET src == last'.sourceId
           t == last'.targetId
           rejected == \/ src = None
                       \/ src = Some(t)
                       \/ findNodeById(src[1], treeData) = None
                       \/ HasRelTo(findNodeById(src[1], treeData)[1], t)
           before == Flatten(treeData)
           after == Flatten(treeData')
       IN /\ rejected => (~last'.ret /\ treeData' = treeData)
          /\ ~rejected => last'.ret
          /\ treeData' # treeData =>
                /\ Len(after) = Len(before)
                /\ \A i \in 1..Len(after) :
                      LET old == before[i].relationships
                          added == AddedRecords(old, after[i].relationships)
                      IN /\ SubSeq(after[i].relationships, 1, Len(old)) = old
                         /\ Len(added) <= 1
                         /\ \A j \in 1..Len(added) :
                              /\ added[j].targetId # after[i].id
                              /\ \A k \in 1..Len(old) : old[k].targetId # added[j].targetId]_vars

\* a createLink was just refused because the source, a node of the forest
\* other than the target, holds a record with that targetId
C12_Witness ==
  /\ last.op = "createLink"
  /\ ~last.ret
  /\ last.sourceId # None
  /\ last.sourceId # Some(last.targetId)
  /\ findNodeById(last.sourceId[1], treeData) # None
  /\ HasRelTo(findNodeById(last.sourceId[1], treeData)[1], last.targetId)

\* the nodes whose children list holds a node with the id
ParentsOf(nodes, nodeId) ==
  LET flat == Flatten(nodes)
  IN {flat[i] : i \in {j \in 1..Len(flat) : \E k \in 1..Len(Kids(flat[j])) : Kids(flat[j])[k].id = nodeId}}

IsTopLevel(nodes, nodeId) == \E i \in 1..Len(nodes) : nodes[i].id = nodeId

\* C13: in a forest of distinct ids findParentOfNode(id) is, for every id of
\* the forest, the node whose children list holds the node when the node is
\* not top-level, and the is-a-root result exactly when it is top-level
C13_ParentFoundEverywhere ==
  DistinctIds(treeData) =>
    \A id \in IdsOf(treeData) :
      LET p == findParentOfNode(id, treeData, None)
      IN IF IsTopLevel(treeData, id) THEN p = None
         ELSE p # None /\ p[1] \in ParentsOf(treeData, id)

\* node for node, the two lists of subtrees carry the same names
RECURSIVE SameNames(_, _)
SameNames(origs, clones) ==
  /\ Len(origs) = Len(clones)
  /\ \A i \in 1..Len(origs) :
       i <= Len(clones) =>
         /\ origs[i].name = clones[i].name
         /\ SameNames(Kids(origs[i]), Kids(clones[i]))

\* C14: the clone duplicateNode(n) puts after n is named as n with " (copy)"
\* appended, and every descendant of the clone has the name of the
\* corresponding descendant of n
C14_CopySuffixOnRootOnly ==
  [][\A n \in IdsOf(treeData) :
       DuplicateNode(n) =>
         LET orig == findNodeById(n, treeData)[1]
         IN \E L \in SiblingLists(treeData') : \E i \in 1..(Len(L) - 1) :
              /\ L[i].id = n
              /\ L[i + 1].name = orig.name \o S_copy
              /\ SameNames(Kids(orig), Kids(L[i + 1]))]_vars

\* C15: the clone duplicateNode(n) puts after n holds the relationship
\* records of n, with the targetIds and labels they have on n, and the
\* markers of n
C15_CloneKeepsLinksAndMarkers ==
  [][\A n \in IdsOf(treeData) :
       DuplicateNode(n) =>
         LET orig == findNodeById(n, treeData)[1]
         IN \E L \in SiblingLists(treeData') : \E i \in 1..(Len(L) - 1) :
              /\ L[i].id = n
              /\ L[i + 1].id # n
              /\ L[i + 1].relationships = orig.relationships
              /\ L[i + 1].markers = orig.markers]_vars

\* the forest without the nodes that carry the id and without their subtrees
RECURSIVE Pruned(_, _)
Pruned(nodes, id) ==
  IF nodes = <<>> THEN <<>>
  ELSE (IF Head(nodes).id = id THEN <<>>
        ELSE IF Head(nodes).children # None
          THEN <<[Head(nodes) EXCEPT !.children = Some(Pruned(Head(nodes).children[1], id))]>>
        ELSE <<Head(nodes)>>)
       \o Pruned(Tail(nodes), id)

\* the list with x put in front of its i-th element
InsertBefore(L, i, x) == SubSeq(L, 1, i - 1) \o <<x>> \o SubSeq(L, i, Len(L))

\* a node without a children list, relationships and markers
IsNewLeaf(node) ==
  /\ node.children = None
  /\ node.relationships = <<>>
  /\ node.markers = <<>>
  /\ node.category = Some("metric")

RECURSIVE NoEmptyLists(_)
NoEmptyLists(nodes) ==
  [i \in 1..Len(nodes) |->
     [nodes[i] EXCEPT !.children = IF Kids(nodes[i]) = <<>> THEN None
                                   ELSE Some(NoEmptyLists(Kids(nodes[i])))]]

Shallow(node) ==
  [node EXCEPT !.children = IF node.children = None THEN None ELSE Some(Len(node.children[1]))]

\* C18: editNode(n, data) leaves the shape of the forest as it was, sets
\* name, unit, esg and scope of the nodes with id n to those of data and
\* leaves their id, children, relationships, markers, category field and
\* every other field, and every field of every other node, as they were
C18_EditTouchesFourFields ==
  [][last'.op = "editNode" =>
       LET before == Flatten(treeData)
           after == Flatten(treeData')
           d == last'.nodeData
       IN /\ Len(after) = Len(before)
          /\ \A i \in 1..Len(before) :
               i <= Len(after) =>
                 Shallow(after[i]) =
                   IF before[i].id = last'.nodeId
                     THEN Shallow([before[i] EXCEPT !.name = d.name, !.unit = d.unit,
                                                    !.esg = d.esg, !.scope = d.scope])
                     ELSE Shallow(before[i])]_vars

\* a node that holds a relationship record and a marker was just edited
C18_Witness ==
  /\ last.op = "editNode"
  /\ findNodeById(last.nodeId, treeData) # None
  /\ LET node == findNodeById(last.nodeId, treeData)[1]
     IN /\ node.name = last.nodeData.name
        /\ node.relationships # <<>>
        /\ node.markers # <<>>
  /\ \E i \in 1..Len(treeData) : Kids(treeData[i]) # <<>>

\* the (metric node, target) pairs of the forest that pass the self-move and
\* descendant checks
MetricMoves(nodes) ==
  {p \in IdsOf(nodes) \X IdsOf(nodes) :
     /\ inferCategory(findNodeById(p[1], nodes)[1]) = "metric"
     /\ p[2] # p[1]
     /\ p[2] \notin DescendantIds(nodes, p[1])}

\* a node that carries the category in its category field
CategoryNode(id, c) == Leaf(id, <<"N">>, None, None, None, Some(c))

\* C19 as stated: validateMove accepts a metric node under a target of any
\* category, root included, when the target is neither the node nor one of
\* its descendants
C19_MetricUnderEveryCategory ==
  \A p \in MetricMoves(treeData) : validateMove(treeData, p[1], Some(p[2])).valid

\* C19 amended: a metric node is accepted under a target of every category
\* but root, metric included, and refused under a target of category root
\* and at root level; the table lists every category but root for metric
C19_MetricUnderEveryCategoryButRoot ==
  /\ \A p \in MetricMoves(treeData) :
       LET tc == inferCategory(findNodeById(p[2], treeData)[1])
           v == validateMove(treeData, p[1], Some(p[2]))
       IN IF tc = "root"
            THEN v = Invalid(<<"metric", " items cannot be moved under ", "root", " items.">>)
            ELSE v = Valid
  /\ \A n \in IdsOf(treeData) :
       inferCategory(findNodeById(n, treeData)[1]) = "metric" =>
         ~validateMove(treeData, n, None).valid
  /\ \A c \in NodeCategory :
       isMoveValid(CategoryNode(<<"s">>, "metric"), Some(CategoryNode(<<"t">>, c))).valid <=> c # "root"

\* a metric node was just moved under a production node in a forest whose
\* root-category node refuses it, and some forest node would take a metric
\* under a metric
C19_Witness ==
  /\ last.op = "moveNode"
  /\ last.ret.valid
  /\ findNodeById(last.nodeId, treeData) # None
  /\ inferCategory(findNodeById(last.nodeId, treeData)[1]) = "metric"
  /\ last.targetParentId # None
  /\ findNodeById(last.targetParentId[1], treeData) # None
  /\ inferCategory(findNodeById(last.targetParentId[1], treeData)[1]) = "production"
  /\ \E p \in MetricMoves(treeData) : inferCategory(findNodeById(p[2], treeData)[1]) = "root"

\* C20: a move error goes away only by clearMoveError or by the timeout of
\* the failure that recorded it, and that timeout clears it.  The error on
\* display is the one of the latest failure, whose timeout is the newest
\* pending one; timeouts run oldest first, so the timeout that runs is the
\* one of the displayed error exactly when it is the only pending one
C20_ErrorStaysForItsDelay ==
  [][/\ (moveError # None /\ moveError' = None) =>
          \/ last'.op = "clearMoveError"
          \/ last'.op = "timeout" /\ timers = 1
     /\ last'.op = "timeout" => moveError' = None]_vars

\* C21: every node of the forest comes back from the XMind export followed
\* by the XMind import with the name and the unit it had
C21_TitleRoundTrip ==
  \A i \in 1..Len(Flatten(treeData)) :
    LET node == Flatten(treeData)[i]
        back == xmindTopicToKPINode(kpiNodeToXMindTopic(node), node.isDetached)
    IN back.name = node.name /\ back.unit = node.unit

\* how many relationship records of the sheets are equal to rec
Emitted(sheets, rec) ==
  Cardinality({p \in (1..Len(sheets)) \X (1..MaxOf({0} \cup {Len(sheets[k].relationships) : k \in 1..Len(sheets)})) :
                 /\ p[2] <= Len(sheets[p[1]].relationships)
                 /\ sheets[p[1]].relationships[p[2]] = rec})

\* C22: in the export of a forest with several attached roots the first
\* sheet carries the relationship records of the whole forest, every other
\* sheet carries only records whose two ends lie under its own root, and a
\* record whose ends lie under different roots is in the document once
C22_OtherSheetsOwnRelationshipsOnly ==
  [][(last'.op = "exportToXMind" /\ Len(AttachedOf(treeData)) >= 2) =>
       LET sheets == download'[1]
           roots == AttachedOf(treeData)
           all == collectRelationships(treeData)
           under(k) == IdsOf(<<roots[k]>>)
       IN /\ Len(sheets) = Len(roots)
          /\ sheets[1].relationships = all
          /\ \A k \in 2..Len(sheets) : \A i \in 1..Len(sheets[k].relationships) :
               /\ sheets[k].relationships[i].end1Id \in under(k)
               /\ sheets[k].relationships[i].end2Id \in under(k)
          /\ \A i \in 1..Len(all) :
               (\E k \in 1..Len(roots) : all[i].end1Id \in under(k) /\ all[i].end2Id \notin under(k))
                 => Emitted(sheets, all[i]) = Cardinality({j \in 1..Len(all) : all[j] = all[i]})]_vars

\* the edges each id ends with when the records are taken one after the
\* other: a record with an end that is no id is skipped; a resolved record
\* appends the forward edge to end1Id and, when end2Id holds no edge to
\* end1Id, the reverse edge to end2Id
RECURSIVE ExpectedEdges(_, _, _)
ExpectedEdges(ids, recs, E) ==
  IF recs = <<>> THEN E
  ELSE LET r == Head(recs)
           label == RelLabel(r)
           forward == [id |-> r.id, targetId |-> r.end2Id, label |-> label]
           reverse == [id |-> r.id \o <<"-","r","e","v","e","r","s","e">>, targetId |-> r.end1Id,
                       label |-> IF label # None /\ label[1] # <<>>
                                   THEN Some(<<"←"," ">> \o label[1]) ELSE None]
           E1 == [E EXCEPT ![r.end1Id] = Append(@, forward)]
           E2 == IF \E i \in 1..Len(E1[r.end2Id]) : E1[r.end2Id][i].targetId = r.end1Id
                   THEN E1 ELSE [E1 EXCEPT ![r.end2Id] = Append(@, reverse)]
       IN IF r.end1Id \notin ids \/ r.end2Id \notin ids
            THEN ExpectedEdges(ids, Tail(recs), E)
            ELSE ExpectedEdges(ids, Tail(recs), E2)

\* C23: an import of sheets whose topics have distinct ids gives every node
\* the edges of the pooled records of all sheets resolved against the ids of
\* all sheets: unresolved records add nothing, resolved ones the forward
\* edge and, without an edge back, the reverse edge
C23_ImportResolvesPooledRecords ==
  [][last'.op = "importXMind" =>
       \A nodes \in {sheetNodes(last'.sheets)} : \A flat \in {Flatten(treeData')} :
         DistinctIds(nodes) =>
           \A E \in {ExpectedEdges(IdsOf(nodes), sheetRelationships(last'.sheets),
                                   [id \in IdsOf(nodes) |-> <<>>])} :
             /\ Len(flat) = NodeCount(nodes)
             /\ \A i \in 1..Len(flat) :
                  flat[i].id \in DOMAIN E /\ flat[i].relationships = E[flat[i].id]]_vars

\* the two-sheet document is imported: the record to a topic of the other
\* sheet is resolved both ways with the back-arrow label, the record that
\* finds an edge back adds no reverse edge, and the record to an id of no
\* topic is dropped
C23_Witness ==
  /\ last.op = "importXMind"
  /\ last.sheets = DocPooled
  /\ findNodeById(ID_p2, treeData)[1].relationships =
       << [id |-> <<"r","1">>, targetId |-> ID_q1, label |-> Some(<<"D">>)] >>
  /\ findNodeById(ID_q1, treeData)[1].relationships =
       << [id |-> <<"r","1","-","r","e","v","e","r","s","e">>, targetId |-> ID_p2,
           label |-> Some(<<"←"," ","D">>)],
          [id |-> <<"r","2">>, targetId |-> ID_p2, label |-> None] >>
  /\ findNodeById(ID_p1, treeData)[1].relationships = <<>>

\* the ids of the topics of a list of topics and of everything below them,
\* one entry per topic
RECURSIVE TopicIds(_)
TopicIds(topics) ==
  IF topics = <<>> THEN <<>>
  ELSE <<Head(topics).id>> \o TopicIds(Head(topics).attached) \o TopicIds(Head(topics).detached)
       \o TopicIds(Head(topics).summary) \o TopicIds(Tail(topics))

\* the ids of all topics of a document
DocumentIds(sheets) ==
  TopicIds([k \in 1..Len(sheets) |-> sheets[k].rootTopic[1]])

Occurrences(seq, x) == Cardinality({i \in 1..Len(seq) : seq[i] = x})

\* C24: the export of a forest with an attached root has every top-level
\* detached node once in the document, in the detached group of the root
\* topic of the first sheet; the import of that document has each of them
\* once in the forest, at top level and flagged isDetached
C24_DetachedOnceAndTopLevel ==
  [][/\ (last'.op = "exportToXMind" /\ AttachedOf(treeData) # <<>>) =>
          \A sheets \in {download'[1]} : \A ids \in {DocumentIds(sheets)} :
            \A i \in 1..Len(DetachedOf(treeData)) :
              /\ Occurrences(ids, DetachedOf(treeData)[i].id) = 1
              /\ \E j \in 1..Len(sheets[1].rootTopic[1].detached) :
                   sheets[1].rootTopic[1].detached[j].id = DetachedOf(treeData)[i].id
     /\ (/\ last'.op = "importXMind"
         /\ AttachedOf(treeData) # <<>>
         /\ download = Some(last'.sheets)
         /\ last'.sheets = exportToXMind(treeData)) =>
          \A flat \in {Flatten(treeData')} :
            \A i \in 1..Len(DetachedOf(treeData)) :
              /\ Cardinality({j \in 1..Len(flat) : flat[j].id = DetachedOf(treeData)[i].id}) = 1
              /\ \E j \in 1..Len(treeData') :
                   treeData'[j].id = DetachedOf(treeData)[i].id /\ treeData'[j].isDetached]_vars

\* a forest with two attached roots and a detached top-level node was
\* exported and the exported document was imported
C24_Witness ==
  /\ last.op = "importXMind"
  /\ download = Some(last.sheets)
  /\ Len(last.sheets) = 2
  /\ Len(last.sheets[1].rootTopic[1].detached) = 1
  /\ Len(AttachedOf(treeData)) = 2
  /\ Len(DetachedOf(treeData)) = 1
  /\ DetachedOf(treeData)[1].id = ID_p3

\* C25: an import of a JSON file that does not parse or whose top-level
\* value is no array, or of an archive without content.json (with or
\* without a legacy content.xml), reports an error and changes nothing: no
\* tab is created, the active tab stays, and the data of every tab and the
\* forest of the store are unchanged
FailingFile(file) ==
  \/ file \in {JsonUnparsable} \cup {JsonValue(v) : v \in {JNull, JNumber, JString}}
  \/ file \in {Archive(None, xml) : xml \in BOOLEAN}

C25_FailedImportChangesNothing ==
  [][(last'.op \in {"handleImportJson", "handleImportXMind"} /\ FailingFile(last'.file)) =>
       /\ importError' # None
       /\ Len(tabs') = Len(tabs)
       /\ activeTabId' = activeTabId
       /\ \A i \in 1..Len(tabs) : tabs'[i].id = tabs[i].id /\ tabs'[i].data = tabs[i].data
       /\ treeData' = treeData]_vars

\* a legacy archive was refused while a tab made by an import is open and
\* the store holds a node that was added
C25_Witness ==
  /\ last.op = "handleImportXMind"
  /\ last.file = Archive(None, TRUE)
  /\ importError # None
  /\ Len(tabs) > 4
  /\ nextId > 1

\* C26: after the default initialization and any sequence of tab operations
\* every preset tab is in the tab list with its original id and name, and
\* closeTab and renameTab applied to a preset tab change nothing
PresetsKept(ts) ==
  \A d \in {DefaultTabs.tabs} :
    \A k \in 1..Len(d) :
      \E i \in 1..Len(ts) :
        /\ ts[i].id = d[k].id
        /\ ts[i].name = d[k].name
        /\ ts[i].isPreset

C26_PresetTabsStay ==
  [][/\ PresetsKept(tabs) => PresetsKept(tabs')
     /\ (last'.op \in {"closeTab", "renameTab"} /\ last'.tabId \in PresetViewType) =>
          tabs' = tabs /\ activeTabId' = activeTabId]_vars

\* closeTab was called for the active preset tab 'consolidated' while a
\* custom tab is open
C26_Witness ==
  /\ last.op = "closeTab"
  /\ last.tabId = ID_consolidated
  /\ activeTabId = ID_consolidated
  /\ Len(tabs) > Len(DefaultTabs.tabs)

\* C27: closeTab on the active custom tab at index i removes it and makes
\* active the tab that is then at index i, or the tab at the previous index
\* when the closed tab was the last one; closeTab on a custom tab that is not
\* active removes it and leaves the active tab unchanged
C27_CloseTabPicksNextActive ==
  [][last'.op = "closeTab" =>
       \A i \in {TabIndex(tabs, last'.tabId)} :
         (i # 0 /\ ~tabs[i].isPreset) =>
           /\ Len(tabs') = Len(tabs) - 1
           /\ \A j \in 1..Len(tabs') :
                \A old \in {IF j < i THEN tabs[j] ELSE tabs[j + 1]} :
                  /\ tabs'[j].id = old.id
                  /\ tabs'[j].name = old.name
                  /\ tabs'[j].data = old.data
           /\ IF activeTabId = last'.tabId
                THEN activeTabId' = (IF i <= Len(tabs') THEN tabs'[i].id ELSE tabs'[i - 1].id)
                ELSE activeTabId' = activeTabId]_vars

\* the active copy of 'consolidated' at index 2 was closed: 'financial',
\* which no other step makes active, moved to index 2 and is active
C27_Witness ==
  /\ last.op = "closeTab"
  /\ last.tabId \notin TabIds
  /\ activeTabId = ID_financial
  /\ tabs[2].id = ID_financial

\* C28: duplicateTab(t) on an existing tab inserts one new custom tab with a
\* fresh id at the index directly after t, makes it the active tab, gives it
\* data, expanded-node set, search term and ESG-only flag equal to those of
\* t, held as copies that a later change of the copy leaves alone, and keeps
\* the order of the other tabs
C28_DuplicateTabCopies ==
  \A i \in 1..Len(tabs) :
    \A r \in {duplicateTab(tabs, activeTabId, tabs[i].id, nextTabId)} :
      /\ Len(r.tabs) = Len(tabs) + 1
      /\ r.tabs[i + 1].id \notin TabIds
      /\ ~r.tabs[i + 1].isPreset
      /\ r.activeTabId = r.tabs[i + 1].id
      /\ r.tabs[i + 1].data = tabs[i].data
      /\ r.tabs[i + 1].expandedNodes = tabs[i].expandedNodes
      /\ r.tabs[i + 1].searchTerm = tabs[i].searchTerm
      /\ r.tabs[i + 1].showESGOnly = tabs[i].showESGOnly
      /\ \A j \in 1..Len(tabs) : r.tabs[IF j <= i THEN j ELSE j + 1] = tabs[j]
      /\ updateTabData(r.tabs, r.activeTabId, <<>>)[i] = tabs[i]
      /\ updateTabExpandedNodes(r.tabs, r.activeTabId, {ID_ghost})[i] = tabs[i]

\* 'consolidated', with an edited root and a UI field set, was duplicated:
\* its copy sits at index 2 before the other preset tabs and is active
C28_Witness ==
  /\ last.op = "duplicateTab"
  /\ last.tabId = ID_consolidated
  /\ tabs[2].id = activeTabId
  /\ ~tabs[2].isPreset
  /\ tabs[2].data = tabs[1].data
  /\ tabs[1].data # DataConsolidated
  /\ TouchedFields(<<tabs[1]>>) > 0

\* C29: initializeTabs of the text saveTabs writes for a tab state gives the
\* same tabs in the same order with the same ids, names and active id; every
\* tab gets back its expanded-node set, search term and ESG-only flag, a
\* custom tab its data, and a preset tab the fresh data set of its preset
C29_RestoreAfterSave ==
  \A r \in {initializeTabs(saveTabs(tabs, activeTabId))} :
    /\ r.activeTabId = activeTabId
    /\ Len(r.tabs) = Len(tabs)
    /\ \A i \in 1..Len(tabs) :
         /\ r.tabs[i].id = tabs[i].id
         /\ r.tabs[i].name = tabs[i].name
         /\ r.tabs[i].isPreset = tabs[i].isPreset
         /\ r.tabs[i].expandedNodes = tabs[i].expandedNodes
         /\ r.tabs[i].searchTerm = tabs[i].searchTerm
         /\ r.tabs[i].showESGOnly = tabs[i].showESGOnly
         /\ r.tabs[i].data = IF tabs[i].isPreset
                                THEN presetTabs(tabs[i].presetType[1]).data
                                ELSE tabs[i].data

\* the page was loaded again with a custom tab whose root had been edited
\* and a tab with a UI field set; the preset tabs hold their fresh data
C29_Witness ==
  /\ last.op = "reload"
  /\ \E i \in 1..Len(tabs) : ~tabs[i].isPreset /\ tabs[i].data # DataConsolidated
  /\ TouchedFields(tabs) > 0
  /\ tabs[1].data = DataConsolidated

\* C30: when the stored text is absent or cannot be restored (a text that
\* does not parse, or a value without a usable tab list: no object, no tabs
\* field, tabs that are no array, or an array with an item that is no tab),
\* initializeTabs ends with exactly the four default preset tabs
\* consolidated, financial, operational, buma and with 'consolidated' active
UsableTabList(saved) ==
  /\ saved # None
  /\ saved[1].text = "json"
  /\ saved[1].value.j = "object"
  /\ saved[1].value.tabs # None
  /\ saved[1].value.tabs[1].j = "array"
  /\ \A i \in 1..Len(saved[1].value.tabs[1].items) :
       /\ saved[1].value.tabs[1].items[i].j = "tab"
       /\ saved[1].value.tabs[1].items[i].tab.id # None
       /\ saved[1].value.tabs[1].items[i].tab.name # None
       /\ saved[1].value.tabs[1].items[i].tab.data # None

C30_DefaultTabsWhenNotRestorable ==
  (last.op = "initializeTabs" /\ ~UsableTabList(last.saved)) =>
    /\ Len(tabs) = 4
    /\ tabs[1] = createPresetTab(ID_consolidated)
    /\ tabs[2] = createPresetTab(ID_financial)
    /\ tabs[3] = createPresetTab(ID_operational)
    /\ tabs[4] = createPresetTab(ID_buma)
    /\ activeTabId = ID_consolidated

\* the distinct (source id, target id) pairs for which the source holds a
\* record that is not a reverse record and whose target is in the forest
LinkedPairs(nodes) ==
  LET flat == Flatten(nodes)
  IN UNION {{<<flat[i].id, flat[i].relationships[j].targetId>> :
               j \in {k \in 1..Len(flat[i].relationships) :
                        /\ ~EndsWith(flat[i].relationships[k].id, S_reverse)
                        /\ nodeMapGet(nodes, flat[i].relationships[k].targetId) # None}} :
            i \in 1..Len(flat)}

\* C31: getAllRelationships returns exactly one entry for each distinct
\* (source id, target id) pair for which the source holds a non-reverse
\* record whose target exists, and no other entry; two different pairs are
\* never merged, whatever characters the ids contain
C31_OneEntryPerPair ==
  \A view \in {getAllRelationships(treeData)} :
  \A pairs \in {LinkedPairs(treeData)} :
    /\ Len(view) = Cardinality(pairs)
    /\ \A p \in pairs :
         Cardinality({i \in 1..Len(view) :
                        view[i].source.id = p[1] /\ view[i].target.id = p[2]}) = 1

\* the records of the forest that are not reverse records and whose target
\* is not in the forest
DanglingRecords(nodes) ==
  LET flat == Flatten(nodes)
  IN UNION {{<<flat[i].id, flat[i].relationships[j].targetId>> :
               j \in {k \in 1..Len(flat[i].relationships) :
                        /\ ~EndsWith(flat[i].relationships[k].id, S_reverse)
                        /\ flat[i].relationships[k].targetId \notin IdsOf(nodes)}} :
            i \in 1..Len(flat)}

\* C32: after any sequence of store operations, deleteNode of a linked-to
\* node included, every entry of getAllRelationships has a source and a
\* target that are nodes of the current forest
C32_NoDanglingEntry ==
  \A view \in {getAllRelationships(treeData)} :
    \A i \in 1..Len(view) :
      /\ findNodeById(view[i].source.id, treeData) # None
      /\ findNodeById(view[i].target.id, treeData) # None

\* a node was deleted and a record that targets a missing node is left
C32_Witness ==
  /\ last.op = "deleteNode"
  /\ DanglingRecords(treeData) # {}

\* the forest without the nodes that carry one of the ids and without their
\* subtrees
RECURSIVE PrunedAll(_, _)
PrunedAll(nodes, ids) ==
  IF nodes = <<>> THEN <<>>
  ELSE (IF Head(nodes).id \in ids THEN <<>>
        ELSE IF Head(nodes).children # None
          THEN <<[Head(nodes) EXCEPT !.children = Some(PrunedAll(Head(nodes).children[1], ids))]>>
        ELSE <<Head(nodes)>>)
       \o PrunedAll(Tail(nodes), ids)

\* C33: duplicateNode(n) changes nothing but the inserted clone: taking the
\* nodes with the generated ids out of the new forest gives the old forest,
\* every existing node with the id, name, unit, esg, scope, category,
\* isDetached, position, relationships, markers and place it had, for n at
\* root level and for nested n
C33_DuplicateKeepsExisting ==
  [][\A n \in IdsOf(treeData) :
       DuplicateNode(n) =>
         PrunedAll(treeData', {generateNodeId(k) : k \in nextId..(nextId' - 1)}) = treeData]_vars

\* C34: XMind export followed by XMind import neither loses nor invents
\* nodes: the forest imported from the document exported from the current
\* forest has the node ids of the current forest, also when detached nodes
\* sit under other nodes or the forest holds detached nodes only
C34_RoundTripKeepsIds ==
  IdsOf(importFromXMind(exportToXMind(treeData))) = IdsOf(treeData)

\* the targetIds of the relationship records of a node, in list order
TargetIds(node) == [j \in 1..Len(node.relationships) |-> node.relationships[j].targetId]

\* node for node, the two forests hold records with the same targetIds
SameRelationshipTargets(before, after) ==
  \A fb \in {Flatten(before)} : \A fa \in {Flatten(after)} :
    /\ Len(fa) = Len(fb)
    /\ \A i \in 1..Len(fb) :
         i <= Len(fa) => fa[i].id = fb[i].id /\ TargetIds(fa[i]) = TargetIds(fb[i])

\* C35: for a forest produced by XMind import, export followed by import
\* gives every node the list of relationship records it had, with as many
\* records and the same targetIds, for one attached root and for several
C35_RoundTripKeepsRelationships ==
  last.op = "importXMind" =>
    SameRelationshipTargets(treeData, importFromXMind(exportToXMind(treeData)))

\* C36: after the default initialization and any sequence of setActiveTab
\* with any id, addNewTab, duplicateTab, closeTab and renameTab, activeTabId
\* is the id of a tab of the list
C36_ActiveTabInList ==
  \E i \in 1..Len(tabs) : tabs[i].id = activeTabId

\* the active tab was closed and the last tab of the list took over
C36_Witness ==
  /\ last.op = "closeTab"
  /\ TabIndex(tabs, last.tabId) = 0
  /\ Len(tabs) = 4
  /\ activeTabId = tabs[4].id

\* the data of every tab of the old list that is still in the new list is
\* the data it had, except for the tabs with the id `but`
OtherTabsKeepData(but) ==
  \A i \in 1..Len(tabs) : \A j \in 1..Len(tabs') :
    (tabs'[j].id = tabs[i].id /\ tabs[i].id \notin but) => tabs'[j].data = tabs[i].data

\* C37: tabs are isolated.  A store mutation changes the data of the active
\* tab, which becomes the forest of the store, and of no other tab, and
\* leaves the list and the active id alone; switching, closing and
\* duplicating change the data of no tab, and after every step the store
\* shows the data of the active tab, so that switching away and back shows
\* the forest the tab was left with
C37_TabsIsolated ==
  [][/\ last'.op \in {"editNode", "deleteNode"} =>
          /\ activeTabId' = activeTabId
          /\ Len(tabs') = Len(tabs)
          /\ \A i \in 1..Len(tabs) : tabs'[i].id = tabs[i].id
          /\ OtherTabsKeepData({activeTabId})
     /\ last'.op \in {"setActiveTab", "closeTab", "duplicateTab"} => OtherTabsKeepData({})
     /\ \E i \in 1..Len(tabs') : tabs'[i].id = activeTabId' /\ tabs'[i].data = treeData']_vars

\* back on the edited preset tab while the copy made of it holds another
\* forest
C37_Witness ==
  /\ last.op = "setActiveTab"
  /\ activeTabId = ID_consolidated
  /\ treeData # DataConsolidated
  /\ \E i \in 1..Len(tabs) : ~tabs[i].isPreset /\ tabs[i].data # treeData

\* C38: while isLocked is true no interaction with the view changes the
\* forest: right-click and the context menu, drag and drop, keyboard
\* shortcuts, node clicks with and without link mode and the delete buttons
\* of the relationship panel, with the lock toggled in between.  The import
\* of a file, which brings the tree the handlers work on, is no such
\* interaction
C38_LockedForestUnchanged ==
  [][(isLocked /\ last'.op # "handleImportXMind") => treeData' = treeData]_vars

\* C39: after the keyboard Delete on the selected node selectedNodeId is
\* null or the id of a node of the forest, whether or not the deleted node
\* was expanded with children shown
C39_SelectionAfterDelete ==
  (last.op = "keyDown" /\ last.key = "Delete") =>
    (selectedNodeId = None \/ findNodeById(selectedNodeId[1], treeData) # None)

====
